---- MODULE Spec2Model ----
(***************************************************************************)
(* Invitation orchestration engine of telegram-parser (defunc.py):         *)
(* the SQLite ledger / exclusion / session_stats store, the session picker, *)
(* the quota governor and the two run loops inviting_rotate_sessions and    *)
(* inviting.                                                                *)
(*                                                                          *)
(* Time is an integer clock in hundredths of a second, so that every delay  *)
(* of the source (0.15 s ... 7 days) is an integer.                         *)
(***************************************************************************)
EXTENDS Integers, Sequences, FiniteSets, TLC

\* ---------------------------------------------------------------- universe
Actors == {"A", "B"}
Keys == {"k1", "k2", "k3"}

\* The destinations: two channels with a public username and one without.
\* A value passed as target is an entity, a string or an integer; an integer
\* is kept as its decimal digits.
TargetEntities ==
    {[kind |-> "entity", username |-> "T1", id |-> 1000001001],
     [kind |-> "entity", username |-> "T2", id |-> 1000001002],
     [kind |-> "entity", username |-> "", id |-> 1000001003]}

PublicTargets == {e \in TargetEntities : e.username # ""}

\* _target_key: "@" + username, else "id:" + id, else str(target)
target_key(target) ==
    IF target.kind = "entity"
    THEN IF target.username # "" THEN "@" \o target.username
         ELSE "id:" \o ToString(target.id)
    ELSE IF target.kind = "str" THEN target.s
    ELSE target.dec

\* telethon.utils.get_peer_id of a channel: -(10^12 + id)
get_peer_id(entity) == [kind |-> "int", dec |-> "-100" \o ToString(entity.id)]

\* target_ref: "@" + username, else the peer id
target_ref(entity) ==
    IF entity.username # "" THEN [kind |-> "str", s |-> "@" \o entity.username]
    ELSE get_peer_id(entity)

\* every target_key an entry point can compute for a destination
Targets ==
    {target_key(e) : e \in TargetEntities}
    \cup {target_key(target_ref(e)) : e \in TargetEntities}
Procs == {1, 2}

\* bounds of the exploration
MaxRuns == 2
MaxFaults == 1

\* at most this many references are parsed
MaxParsed == 2

Max2(a, b) == IF a >= b THEN a ELSE b
Min2(a, b) == IF a <= b THEN a ELSE b
Max3(a, b, c) == Max2(a, Max2(b, c))
Range(s) == {s[i] : i \in 1..Len(s)}

\* ---------------------------------------------------- constants of the code
HourWindow == 360000
DayWindow == 8640000
UnauthorizedPush == 360000
ForbiddenBlock == 60480000
NetworkBlock == 6000
PreflightJoinBlock == 8640000
PreflightFloodBlock == 60000
PreflightNetworkBlock == 12000
PreflightRightsBlock == 8640000
DelayFloor == 100
DelayLow == 150
DelayHigh == 1000
BackoffLow == 600
BackoffHigh == 1500
SingleDelayHigh == 800
SingleBackoffHigh == 1200
SingleNetworkSleep == 3000

\* endpoints of the random.uniform draws of the source
DelayNudges == {-15, 35}
RotatePenalties == {300, 800}
AttemptPenalties_none == {0}
AttemptPenalties == {1000, 2500}
ReadyJitters == {200, 600}
NightJitters == {3000, 12000}
SingleJitters == {30, 120}
SingleNudges == {-20, 40}
SingleFloodJitters == {100, 300}

\* ------------------------------------------------------------ configuration
\* defaults of inviting_rotate_sessions; durations in clock ticks
DefaultCfg ==
    [base_delay |-> 200, switch_on_floodwait_seconds |-> 6000,
     rotate_every |-> 0, max_attempts_per_session |-> 0,
     per_hour_limit |-> 0, per_day_limit |-> 0,
     jitter_min |-> 30, jitter_max |-> 120,
     max_user_attempts |-> 3, peerflood_freeze_hours |-> 24,
     floodwait_buffer_seconds |-> 6000,
     night_mode |-> FALSE, night_start |-> <<2, 0>>, night_end |-> <<7, 0>>]

\* ------------------------------------------------------------- SessionState
SessionState ==
    [blocked_until |-> 0, frozen_until |-> 0, banned |-> FALSE,
     last_invite_at |-> 0, next_invite_at |-> 0,
     hour_window_start |-> 0, hour_count |-> 0,
     day_window_start |-> 0, day_count |-> 0,
     ok |-> 0, fail |-> 0, attempts |-> 0]

ReadyAt(st) == Max3(st.blocked_until, st.frozen_until, st.next_invite_at)

\* --------------------------------------------------------------- the ledger
\* table invites: a set of rows; the unique index is on (target, user_key)
TerminalStatuses == {"ok", "already", "privacy", "invalid"}

\* rows looked up by candidate alone, whatever the target
ledger_rows_any_target(inv, t, k) == {r \in inv : r.user_key = k}

ledger_rows(inv, t, k) == {r \in inv : r.target = t /\ r.user_key = k}

\* a lookup that never finds a row
ledger_get_none(inv, t, k) == "none"

\* SELECT status ... LIMIT 1: "none" when there is no row
ledger_get(inv, t, k) ==
    IF ledger_rows(inv, t, k) = {} THEN "none"
    ELSE (CHOOSE r \in ledger_rows(inv, t, k) : TRUE).status

\* a plain INSERT on a table without the unique index
ledger_put_no_replace(inv, t, k, s) ==
    inv \cup {[target |-> t, user_key |-> k, status |-> s]}

\* INSERT OR REPLACE: the rows that clash on the unique index are deleted
ledger_put(inv, t, k, s) ==
    (inv \ ledger_rows(inv, t, k)) \cup {[target |-> t, user_key |-> k, status |-> s]}

\* ---------------------------------------------------------- exclusion store
\* table excluded_users: user_key -> hits, 0 hits standing for "no row"
excluded_load_none(exc) == {}

\* SELECT user_key FROM excluded_users
excluded_load_all(exc) == {k \in Keys : exc[k] > 0}

excluded_add(exc, k) == [exc EXCEPT ![k] = @ + 1]

\* ------------------------------------------------------ session_stats store
\* table session_stats: a function from the actors that have a row
\* a windows rule that never resets a window
NormalizeWindows_never(st, t) == st

\* lines 488-494 and 537-543: a stale window restarts at t with count 0
NormalizeWindows(st, t) ==
    LET h == IF st.hour_window_start <= 0 \/ t - st.hour_window_start >= HourWindow
             THEN [st EXCEPT !.hour_window_start = t, !.hour_count = 0]
             ELSE st
    IN  IF h.day_window_start <= 0 \/ t - h.day_window_start >= DayWindow
        THEN [h EXCEPT !.day_window_start = t, !.day_count = 0]
        ELSE h

\* the columns session_stats_save writes for a state: banned as 1 or 0
StoredRow(st) == [st EXCEPT !.banned = IF @ THEN 1 ELSE 0]

\* a load that forgets the banned column
RowState_unbanned(row) == [row EXCEPT !.banned = FALSE]

\* the state session_stats_load builds from a row: banned = bool(row[2] or 0)
RowState(row) == [row EXCEPT !.banned = (@ # 0)]

\* the rows after session_stats_load: INSERT OR IGNORE of a default row
session_stats_insert(db, files) ==
    [a \in (DOMAIN db) \cup Range(files) |->
        IF a \in DOMAIN db THEN db[a] ELSE StoredRow(SessionState)]

\* the states session_stats_load returns (actors outside files stay default)
session_stats_load(db, files, t) ==
    [a \in Actors |->
        IF a \in Range(files)
        THEN NormalizeWindows(IF a \in DOMAIN db THEN RowState(db[a])
                              ELSE SessionState, t)
        ELSE SessionState]

\* a save that writes nothing
session_stats_save_nothing(db, a, st) == db

\* UPDATE ... WHERE session_file = a
session_stats_save(db, a, st) ==
    IF a \in DOMAIN db THEN [db EXCEPT ![a] = StoredRow(st)] ELSE db

\* ------------------------------------------------------------ rate governor
session_next_time_due_to_limits(st, per_hour_limit, per_day_limit) ==
    LET d1 == IF per_hour_limit # 0 /\ st.hour_count >= per_hour_limit
              THEN Max2(0, st.hour_window_start + HourWindow) ELSE 0
    IN  IF per_day_limit # 0 /\ st.day_count >= per_day_limit
        THEN Max2(d1, st.day_window_start + DayWindow) ELSE d1

session_consume_invite_token(st, per_hour_limit, per_day_limit, t) ==
    LET n == NormalizeWindows(st, t)
        h == IF per_hour_limit # 0 THEN [n EXCEPT !.hour_count = @ + 1] ELSE n
    IN  IF per_day_limit # 0 THEN [h EXCEPT !.day_count = @ + 1] ELSE h

\* a quota gate that pushes nothing
apply_soft_limits_off(states, files, c, t) == states

\* the quota gate of the loop: push next_invite_at of every exhausted actor
apply_soft_limits(states, files, c, t) ==
    [a \in Actors |->
        LET due == session_next_time_due_to_limits(states[a], c.per_hour_limit,
                                                   c.per_day_limit)
        IN  IF a \in Range(files)
               /\ (c.per_hour_limit # 0 \/ c.per_day_limit # 0)
               /\ due # 0 /\ due > t
            THEN [states[a] EXCEPT !.next_invite_at = Max2(@, due)]
            ELSE states[a]]

\* ---------------------------------------------------------------- scheduler
SortKey(st) == <<ReadyAt(st), st.last_invite_at, st.attempts>>

KeyLess(x, y) ==
    \/ x[1] < y[1]
    \/ x[1] = y[1] /\ x[2] < y[2]
    \/ x[1] = y[1] /\ x[2] = y[2] /\ x[3] < y[3]

\* a pick that ignores readiness: the first non-banned state of the list
pick_first_session(states, files) ==
    LET cand == {i \in 1..Len(files) : ~states[files[i]].banned}
    IN  IF cand = {} THEN "none"
        ELSE files[CHOOSE i \in cand : \A j \in cand : i <= j]

\* first element of the stable sort of the non-banned states; "none" for None
pick_best_session(states, files) ==
    LET cand == {i \in 1..Len(files) : ~states[files[i]].banned}
    IN  IF cand = {} THEN "none"
        ELSE files[CHOOSE i \in cand : \A j \in cand \ {i} :
                      \/ KeyLess(SortKey(states[files[i]]), SortKey(states[files[j]]))
                      \/ /\ SortKey(states[files[i]]) = SortKey(states[files[j]])
                         /\ i < j]

\* a wait that returns at once
sleep_until_ready_at_once(states, files, t, jit) == t

\* the clock after _sleep_until_ready (jit: the drawn extra jitter)
sleep_until_ready(states, files, t, jit) ==
    LET live == {a \in Range(files) : ~states[a].banned}
        soonest == CHOOSE x \in {ReadyAt(states[a]) : a \in live} :
                       \A y \in {ReadyAt(states[a]) : a \in live} : x <= y
    IN  IF live = {} THEN t
        ELSE IF Max2(0, soonest - t) <= 0 THEN t
        ELSE t + Max2(0, soonest - t) + jit

\* --------------------------------------------------------------- night mode
MinuteOfDay(t) == (t \div 6000) % 1440

is_time_in_window(t, s, e) ==
    LET cur == MinuteOfDay(t)
        start == s[1] * 60 + s[2]
        end == e[1] * 60 + e[2]
    IN  IF start <= end THEN start <= cur /\ cur <= end
        ELSE cur >= start \/ cur <= end

\* seconds (not ticks) until the end of the window, 0 outside of it
seconds_until_window_end(t, s, e) ==
    LET cur == MinuteOfDay(t)
        start == s[1] * 60 + s[2]
        end == e[1] * 60 + e[2]
    IN  IF ~is_time_in_window(t, s, e) THEN 0
        ELSE IF start <= end THEN Max2(0, end - cur) * 60
        ELSE IF cur <= end THEN Max2(0, (end - cur) * 60)
        ELSE Max2(0, ((24 * 60 - cur) + end) * 60)

\* ------------------------------------------------------- provider outcomes
\* what client(InviteToChannelRequest(...)) returns or raises
Signals ==
    {"ok", "already", "privacy", "not_mutual", "channels_too_much", "kicked",
     "blocked", "forbidden", "forbidden_perm_np", "forbidden_part_np",
     "floodwait", "invalid", "admin_required", "peerflood", "value_error",
     "network", "rpc_error", "other"}

\* FloodWaitError.seconds, below and above switch_on_floodwait_seconds
FloodSeconds == {3000, 12000}

ProviderOutcomes ==
    {[sig |-> s, sec |-> 0] : s \in Signals \ {"floodwait"}}
    \cup {[sig |-> "floodwait", sec |-> w] : w \in FloodSeconds}

\* _make_client: connected, RuntimeError (not authorized), any other exception
MakeOutcomes == {"ok", "unauthorized", "error"}

\* handlers that call excluded_add and excluded_cache.add
ExcludeSignals ==
    {"privacy", "not_mutual", "channels_too_much", "kicked", "blocked",
     "invalid", "value_error"}

ForbiddenSignals == {"forbidden", "forbidden_perm_np", "forbidden_part_np"}

\* handlers that count the candidate as skipped
SkipSignals == ExcludeSignals \cup {"already"}

\* a catch-all that counts no failure
FailSignals_classified == ForbiddenSignals \cup {"floodwait", "peerflood", "network"}

\* handlers of inviting_rotate_sessions that count a failure
FailSignals == ForbiddenSignals \cup {"floodwait", "peerflood", "network", "rpc_error", "other"}

\* handlers whose success branch records a retriable status
LedgerStatus_ok_as_failed(sig) ==
    CASE sig = "already" -> "already"
      [] sig = "privacy" -> "privacy"
      [] sig \in {"not_mutual", "channels_too_much", "kicked", "blocked", "value_error"} -> "skip"
      [] sig \in {"forbidden", "forbidden_perm_np", "forbidden_part_np"} -> "forbidden"
      [] sig = "floodwait" -> "floodwait"
      [] sig = "invalid" -> "invalid"
      [] sig = "admin_required" -> "stop"
      [] sig = "peerflood" -> "peerflood"
      [] OTHER -> "failed"

\* the status each handler passes to ledger_put
LedgerStatus(sig) ==
    CASE sig = "ok" -> "ok"
      [] sig = "already" -> "already"
      [] sig = "privacy" -> "privacy"
      [] sig \in {"not_mutual", "channels_too_much", "kicked", "blocked", "value_error"} -> "skip"
      [] sig \in ForbiddenSignals -> "forbidden"
      [] sig = "floodwait" -> "floodwait"
      [] sig = "invalid" -> "invalid"
      [] sig = "admin_required" -> "stop"
      [] sig = "peerflood" -> "peerflood"
      [] OTHER -> "failed"

\* handlers that exclude only after a diagnosed write-forbidden
ExcludeAdds_forbidden_only(sig) ==
    IF sig = "forbidden_perm_np" THEN 1
    ELSE IF sig = "forbidden_part_np" THEN 2
    ELSE 0

\* number of excluded_add calls of a handler
ExcludeAdds(sig) ==
    IF sig \in ExcludeSignals \cup {"forbidden_perm_np"} THEN 1
    ELSE IF sig = "forbidden_part_np" THEN 2
    ELSE 0

\* the keys of the per-session diagnostics counters (lines 1077-1091)
SummaryCategories ==
    {"ok", "privacy", "forbidden", "not_mutual", "user_kicked", "user_blocked",
     "user_channels_too_much", "floodwait", "peerflood", "invalid", "network",
     "rpc_other", "other"}

\* the counter a handler adds one to, "none" for a handler that adds to none
SesStatKey(sig) ==
    CASE sig = "privacy" -> "privacy"
      [] sig = "not_mutual" -> "not_mutual"
      [] sig = "channels_too_much" -> "user_channels_too_much"
      [] sig = "kicked" -> "user_kicked"
      [] sig = "blocked" -> "user_blocked"
      [] sig = "invalid" -> "invalid"
      [] OTHER -> "none"

excluded_add_n(exc, k, n) == [exc EXCEPT ![k] = @ + n]

\* a rotating run that also breaks on PeerFlood
RotateFatal_with_peerflood == {"admin_required", "peerflood"}

\* outcomes that end the for loop with break
RotateFatal == {"admin_required"}
SingleFatal == {"admin_required", "peerflood"}

\* ------------------------------------------------------- user references
\* a raw reference is an integer or a string; a string is kept as the tuple of
\* its characters, so that strip, isdigit, lower and the patterns are computed
Digits == {"0", "1", "2", "3", "4", "5", "6", "7", "8", "9"}

LowerLetters == {"a", "b", "c", "d"}

UpperLetters == {"A", "B", "C", "D"}

Whitespace == {" "}

DigitValue(c) ==
    CASE c = "0" -> 0 [] c = "1" -> 1 [] c = "2" -> 2 [] c = "3" -> 3 [] c = "4" -> 4
      [] c = "5" -> 5 [] c = "6" -> 6 [] c = "7" -> 7 [] c = "8" -> 8 [] c = "9" -> 9

\* str.lower with every character left as it is
lower_char_identity(c) == c

\* str.lower on one character
lower_char(c) ==
    CASE c = "A" -> "a" [] c = "B" -> "b" [] c = "C" -> "c" [] c = "D" -> "d"
      [] OTHER -> c

\* str.lower
lower(s) == [i \in 1..Len(s) |-> lower_char(s[i])]

RECURSIVE lstrip(_)
lstrip(s) == IF s # << >> /\ Head(s) \in Whitespace THEN lstrip(Tail(s)) ELSE s

RECURSIVE rstrip(_)
rstrip(s) ==
    IF s # << >> /\ s[Len(s)] \in Whitespace THEN rstrip(SubSeq(s, 1, Len(s) - 1)) ELSE s

\* str.strip
strip(s) == rstrip(lstrip(s))

\* str.isdigit: not empty and every character a digit
isdigit(s) == s # << >> /\ \A i \in 1..Len(s) : s[i] \in Digits

\* int(s) of a digit string, surrounding blanks and leading zeros dropped
RECURSIVE int_of(_)
int_of(s) ==
    IF s = << >> THEN 0 ELSE 10 * int_of(SubSeq(s, 1, Len(s) - 1)) + DigitValue(s[Len(s)])

\* "".join(chars): the string the tuple of characters stands for
RECURSIVE join(_)
join(s) == IF s = << >> THEN "" ELSE Head(s) \o join(Tail(s))

\* re.fullmatch(r"(\d+):(\d+)", s): the position of the colon, 0 without a match
colon_match(s) ==
    LET at == {i \in 1..Len(s) :
                  /\ s[i] = ":"
                  /\ isdigit(SubSeq(s, 1, i - 1))
                  /\ isdigit(SubSeq(s, i + 1, Len(s)))}
    IN IF at = {} THEN 0 ELSE CHOOSE i \in at : TRUE

\* re.fullmatch(r"[A-Za-z0-9_]{4,}", s)
handle_match(s) ==
    /\ Len(s) >= 4
    /\ \A i \in 1..Len(s) : s[i] \in Digits \cup LowerLetters \cup UpperLetters \cup {"_"}

\* the first component of parse_user_ref's result, the candidate key: "empty",
\* or form \o ":" \o text; form is kept apart so that it can be read back
parse_user_ref(raw) ==
    IF raw.kind = "int"
    THEN [form |-> "id", text |-> ToString(raw.n)]
    ELSE LET s == strip(raw.s) IN
         IF isdigit(s) THEN [form |-> "id", text |-> ToString(int_of(s))]
         ELSE IF s = << >> THEN [form |-> "empty", text |-> ""]
         ELSE IF Head(s) = "@" THEN [form |-> "u", text |-> join(lower(Tail(s)))]
         ELSE IF colon_match(s) # 0
              THEN [form |-> "id", text |-> ToString(int_of(SubSeq(s, 1, colon_match(s) - 1)))]
         ELSE IF handle_match(s) THEN [form |-> "u", text |-> join(lower(s))]
         ELSE [form |-> "raw", text |-> join(s)]

\* the references explored: ids as integers, as digit strings and with an
\* access hash; names with and without the at sign, in several letter cases,
\* of four characters and of three, all digits, with a hyphen; blank strings
RawInputs ==
    {[kind |-> "int", n |-> 7]} \cup
    {[kind |-> "str", s |-> t] : t \in {
        <<"7">>, <<"0", "0", "7">>, <<" ", "7", " ">>, <<"7", ":", "9", "9">>,
        <<"@", "A", "b", "c", "d">>, <<"a", "b", "c", "d">>, <<"A", "B", "c", "d">>,
        <<"@", "a", "b", "c">>, <<"a", "b", "c">>,
        <<"@", "0", "7", "0", "7">>, <<"0", "7", "0", "7">>,
        <<"@", "a", "-", "b", "c">>, <<"a", "-", "b", "c">>,
        << >>, <<" ">>}}


\* -------------------------------------------------------------------- state
VARIABLES
    invites,         \* table invites
    excluded_users,  \* table excluded_users
    session_stats,   \* table session_stats
    now,             \* the wall clock
    cfg,             \* the options of the runs
    users,           \* the candidate list (user keys, in input order)
    run,             \* per orchestrator process: the locals of its run
    nruns,           \* runs started so far
    faults,          \* non-ok answers the environment has given so far
    env,             \* the environment explored: its random source, its runs
    sent,            \* history: per (target, candidate), the dispatches and the last answer
    lastPut,         \* history: per (target, candidate), the status of the last ledger_put
    okTimes,         \* history: per actor, the times of its successful dispatches
    parsed           \* the raw references parsed so far, each with its key

vars == <<invites, excluded_users, session_stats, now, cfg, users, run, nruns,
          faults, env, sent, lastPut, okTimes, parsed>>

NoRun(pcv) ==
    [pc |-> pcv, mode |-> "none", target |-> "@T1",
     dest |-> CHOOSE e \in TargetEntities : e.username = "T1",
     files |-> << >>, idx |-> 1,
     excluded_cache |-> {}, delay |-> 0,
     states |-> [a \in Actors |-> SessionState],
     ok_cnt |-> 0, skip_cnt |-> 0, fail_cnt |-> 0,
     ok_in_session |-> [a \in Actors |-> 0],
     attempts_in_session |-> [a \in Actors |-> 0],
     user_attempts |-> [k \in Keys |-> 0],
     client_cache |-> [a \in Actors |-> "none"],
     ses_stats |-> [a \in Actors |-> [c \in SummaryCategories |-> 0]],
     cur |-> "none", halted |-> FALSE,
     \* history of the run
     ndisp |-> 0, k0 |-> 0, ev |-> "none", sig |-> "none",
     streak |-> [actor |-> "none", n |-> 0], others_ready |-> {},
     \* the last dispatch (its actor, its answer, its FloodWait seconds) and
     \* the actors that were ready at the first pick of the current pass
     last_actor |-> "none", last_sig |-> "none", sec |-> 0, ready_before |-> {},
     \* the run started on an empty ledger and exclusion store; every dispatch
     \* of the run so far was answered with success
     fresh |-> FALSE, all_ok |-> TRUE]

\* ------------------------------------------------------------------ inputs
CfgRotate == [DefaultCfg EXCEPT !.jitter_max = 30, !.rotate_every = 1]
CfgQuota == [DefaultCfg EXCEPT !.jitter_max = 30, !.per_hour_limit = 1]
CfgCap ==
    [DefaultCfg EXCEPT !.jitter_max = 30, !.max_user_attempts = 1,
                       !.max_attempts_per_session = 2]

\* the options of a scenario and its candidate list: three distinct
\* candidates, or a list in which one candidate_key occurs twice
Scenarios ==
    {<<CfgRotate, <<"k1", "k2", "k3">>>>,
     <<CfgQuota, <<"k1", "k2", "k3">>>>,
     <<CfgCap, <<"k1", "k1", "k2">>>>}

\* the quota scenarios: an hourly limit of 1 or 2, a daily limit of 1 or 2
QuotaLimits ==
    {[h |-> 1, d |-> 0], [h |-> 2, d |-> 0], [h |-> 0, d |-> 1], [h |-> 2, d |-> 2]}

CfgLimits(q) ==
    [DefaultCfg EXCEPT !.jitter_max = 30, !.per_hour_limit = q.h, !.per_day_limit = q.d]

ScenariosQuota == {<<CfgLimits(q), <<"k1", "k2", "k3">>>> : q \in QuotaLimits}

\* the delay scenarios: base_delay of 1 s, 1.5 s, 2 s and 12 s
BaseDelays == {100, 150, 200, 1200}

ScenariosDelay ==
    {<<[DefaultCfg EXCEPT !.jitter_max = 30, !.base_delay = b], <<"k1", "k2", "k3">>>> :
        b \in BaseDelays}

\* the night-mode scenario: the pause window 02:00-07:00, three candidates
CfgNight == [DefaultCfg EXCEPT !.jitter_max = 30, !.night_mode = TRUE]

\* the per-candidate cap scenarios: one candidate_key three times in the
\* list, with the cap off, at one and at two
ScenariosCap ==
    {<<[DefaultCfg EXCEPT !.jitter_max = 30, !.max_user_attempts = c],
       <<"k1", "k1", "k1">>>> : c \in {0, 1, 2}}

ScenariosNight == {<<CfgNight, <<"k1", "k2", "k3">>>>}

\* the two-orchestrator scenario: two candidates, the default options
ScenariosTwo == {<<[DefaultCfg EXCEPT !.jitter_max = 30], <<"k1", "k2">>>>}

\* the answers explored with two orchestrators: a success, a terminal skip,
\* an exclusion and a retriable failure
SignalsTwo == {"ok", "privacy", "kicked", "floodwait"}

FileLists == {<<"A">>, <<"A", "B">>}

\* time between the end of a run and the start of the next one
RunGaps == {1000, 350000}

\* 01:59:55 local time on the second day of the clock
StartOfClock == 8640000 + 719500

\* The values random.uniform can return for a draw with endpoints S: both
\* endpoints when the random source is free, else always the same endpoint.
Draw(S) ==
    CASE env.draws = "low" -> {x \in S : \A y \in S : x <= y}
      [] env.draws = "high" -> {x \in S : \A y \in S : x >= y}
      [] OTHER -> S

InitStore(scenarios) ==
    /\ invites = {}
    /\ excluded_users = [k \in Keys |-> 0]
    /\ session_stats = << >>
    /\ now = StartOfClock
    /\ \E sc \in scenarios : cfg = sc[1] /\ users = sc[2]
    /\ nruns = 0
    /\ faults = 0
    /\ sent = [tk \in Targets \X Keys |-> [n |-> 0, last |-> "none"]]
    /\ lastPut = [tk \in Targets \X Keys |-> "none"]
    /\ okTimes = [a \in Actors |-> << >>]
    /\ parsed = << >>

\* one orchestrator, MaxRuns runs one after the other, a constant random source
Init ==
    /\ InitStore(Scenarios)
    /\ run = [p \in Procs |-> NoRun(IF p = 1 THEN "idle" ELSE "off")]
    /\ env = [draws |-> "low", runs |-> MaxRuns, signals |-> Signals, dests |-> PublicTargets]

\* two orchestrators on the same store, their steps interleaved
InitTwo ==
    /\ InitStore(ScenariosTwo)
    /\ run = [p \in Procs |-> NoRun("idle")]
    /\ env = [draws |-> "low", runs |-> MaxRuns, signals |-> SignalsTwo, dests |-> PublicTargets]

\* one orchestrator with night_mode on, the clock five seconds before the window
InitNight ==
    /\ InitStore(ScenariosNight)
    /\ run = [p \in Procs |-> NoRun(IF p = 1 THEN "idle" ELSE "off")]
    /\ env = [draws |-> "low", runs |-> MaxRuns, signals |-> Signals, dests |-> PublicTargets]

\* one orchestrator on a list that repeats one candidate
InitCap ==
    /\ InitStore(ScenariosCap)
    /\ run = [p \in Procs |-> NoRun(IF p = 1 THEN "idle" ELSE "off")]
    /\ env = [draws |-> "low", runs |-> MaxRuns, signals |-> Signals, dests |-> PublicTargets]

\* one orchestrator, runs against a destination with a public username and
\* against one without
InitTarget ==
    /\ InitStore(ScenariosTwo)
    /\ run = [p \in Procs |-> NoRun(IF p = 1 THEN "idle" ELSE "off")]
    /\ env = [draws |-> "low", runs |-> MaxRuns, signals |-> Signals,
              dests |-> {e \in TargetEntities : e.username # "T2"}]

\* one orchestrator, runs with hourly and daily limits
InitQuota ==
    /\ InitStore(ScenariosQuota)
    /\ run = [p \in Procs |-> NoRun(IF p = 1 THEN "idle" ELSE "off")]
    /\ env = [draws |-> "low", runs |-> MaxRuns, signals |-> Signals, dests |-> PublicTargets]

\* one orchestrator, runs with several values of base_delay
InitDelay ==
    /\ InitStore(ScenariosDelay)
    /\ run = [p \in Procs |-> NoRun(IF p = 1 THEN "idle" ELSE "off")]
    /\ env = [draws |-> "low", runs |-> MaxRuns, signals |-> Signals, dests |-> PublicTargets]

\* one orchestrator, one run, a free random source
InitDraws ==
    /\ InitStore(Scenarios)
    /\ run = [p \in Procs |-> NoRun(IF p = 1 THEN "idle" ELSE "off")]
    /\ env = [draws |-> "free", runs |-> 1, signals |-> Signals, dests |-> PublicTargets]

\* history: the candidates of the list that are terminal in the ledger for t
TerminalCount(inv, t) ==
    Cardinality({k \in Range(users) :
        \E row \in inv : /\ row.target = t /\ row.user_key = k
                          /\ row.status \in {"ok", "already", "privacy", "invalid"}})

\* the targets are interchangeable until the first run has written the store
FirstTargets ==
    IF nruns = 0 /\ env.dests = PublicTargets
    THEN {e \in TargetEntities : e.username = "T1"}
    ELSE env.dests

\* ---------------------------------------------------------------- run start
\* inviting_rotate_sessions up to its for loop (lines 1054-1136)
StartRotate(p) ==
    /\ run[p].pc \in {"idle", "done", "crashed", "preflighted"}
    /\ nruns < env.runs
    /\ \E d \in FirstTargets,
          files \in (IF run[p].pc = "preflighted" THEN {run[p].files} ELSE FileLists),
          gap \in (IF nruns = 0 THEN {0} ELSE RunGaps) :
        /\ now' = now + gap
        /\ session_stats' = session_stats_insert(session_stats, files)
        /\ run' = [run EXCEPT ![p] =
              [NoRun("loop") EXCEPT
                  !.mode = "rotate", !.dest = d,
                  !.target = target_key(target_ref(d)), !.files = files,
                  !.excluded_cache = excluded_load_all(excluded_users),
                  !.delay = Max2(DelayFloor, cfg.base_delay),
                  !.states = session_stats_load(session_stats, files, now + gap),
                  !.k0 = TerminalCount(invites, target_key(target_ref(d))),
                  !.fresh = (invites = {} /\ \A k \in Keys : excluded_users[k] = 0)]]
    /\ nruns' = nruns + 1
    /\ UNCHANGED <<invites, excluded_users, cfg, users, parsed, faults, env, sent, lastPut, okTimes>>

\* inviting up to its for loop (lines 1440-1455); files names the one client
StartSingle(p) ==
    /\ run[p].pc \in {"idle", "done", "crashed"}
    /\ nruns < env.runs
    /\ \E d \in FirstTargets, gap \in (IF nruns = 0 THEN {0} ELSE RunGaps) :
        /\ now' = now + gap
        /\ run' = [run EXCEPT ![p] =
              [NoRun("loop") EXCEPT
                  !.mode = "single", !.dest = d,
                  !.target = target_key(d), !.files = <<"A">>,
                  !.excluded_cache = excluded_load_all(excluded_users),
                  !.delay = Max2(DelayFloor, cfg.base_delay),
                  !.client_cache = [a \in Actors |-> IF a = "A" THEN "connected" ELSE "none"],
                  !.cur = "A",
                  !.k0 = TerminalCount(invites, target_key(d)),
                  !.fresh = (invites = {} /\ \A k \in Keys : excluded_users[k] = 0)]]
    /\ nruns' = nruns + 1
    /\ UNCHANGED <<invites, excluded_users, session_stats, cfg, users, parsed, faults,
                   env, sent, lastPut, okTimes>>

\* ------------------------------------------- inviting_rotate_sessions: loop
\* A step result: the run's locals, the tables, the clock, and whether the
\* step consumed a non-ok answer of the environment.
Result(r, inv, exc, db, t, f) ==
    [run |-> r, invites |-> inv, excluded_users |-> exc, session_stats |-> db,
     now |-> t, fault |-> f, put |-> << >>]

\* a handler that forgets its ledger_put
WithoutPut(res, t, k, s) == res

\* a step result whose handler also called ledger_put(conn, t, k, ..., s)
WithPut(res, t, k, s) ==
    [res EXCEPT !.invites = ledger_put(@, t, k, s), !.put = <<t, k, s>>]

\* get_client's except RuntimeError branch (lines 1109-1122)
mark_unauthorized(st, t) ==
    [st EXCEPT !.banned = TRUE, !.fail = @ + 1, !.attempts = @ + 1,
               !.next_invite_at = Max2(@, t + UnauthorizedPush)]

\* lines 1175-1205: quota gate, pick, wait, pick again, get_client, sleep
\*   sj: jitter of _sleep_until_ready, mk: what _make_client does,
\*   pj: jitter of the sleep before the dispatch
rot_pick(r, inv, exc, db, t1, sj, mk, pj) ==
    LET st1 == apply_soft_limits(r.states, r.files, cfg, t1)
        first == pick_best_session(st1, r.files)
        t2 == IF first # "none" /\ ReadyAt(st1[first]) > t1
              THEN sleep_until_ready(st1, r.files, t1, sj)
              ELSE t1
        sf == pick_best_session(st1, r.files)
        r1 == [r EXCEPT !.states = st1]
        go == [r1 EXCEPT !.pc = "dispatch", !.cur = sf, !.ev = "picked", !.sig = "none",
                         !.client_cache[sf] = IF @ = "none" THEN "connected" ELSE @,
                         !.others_ready =
                             {a \in Range(r.files) \ {sf} :
                                 ~st1[a].banned /\ ReadyAt(st1[a]) <= t2},
                         !.ready_before =
                             {a \in Range(r.files) :
                                 ~st1[a].banned /\ ReadyAt(st1[a]) <= t1}]
    IN  IF sf = "none"
        THEN Result([r1 EXCEPT !.pc = "exit", !.halted = TRUE, !.ev = "no_session",
                               !.sig = "none"],
                    inv, exc, db, t1, 0)
        ELSE IF r.client_cache[sf] # "none"
        THEN Result(go, inv, exc, db, t2 + r.delay + pj, 0)
        ELSE IF mk = "unauthorized"
        THEN Result([r1 EXCEPT !.states[sf] = mark_unauthorized(@, t2),
                               !.idx = @ + 1, !.ev = "unauthorized", !.sig = "none"],
                    inv, exc,
                    session_stats_save(db, sf, mark_unauthorized(st1[sf], t2)),
                    t2, 1)
        ELSE IF mk = "error"
        THEN Result([r1 EXCEPT !.pc = "crashed", !.ev = "crash", !.sig = "none"],
                    inv, exc, db, t2, 1)
        ELSE Result(go, inv, exc, db, t2 + r.delay + pj, 0)

\* a gate that never finds the candidate in the cache
is_excluded_never(cache, k) == FALSE

\* the exclusion gate (line 1151)
is_excluded(cache, k) == k \in cache

\* a ledger gate that forgets the status ok
is_terminal_no_ok(prev) == prev \in {"already", "privacy", "invalid"}

\* the ledger gate (line 1163)
is_terminal(prev) == prev \in TerminalStatuses

\* a per-candidate cap that never applies
user_capped_never(n, cap) == FALSE

\* the per-candidate attempt cap of a run (line 1169)
user_capped(n, cap) == cap # 0 /\ n > cap

\* lines 1138-1205: one pass of the loop body up to the dispatch
\*   nj: jitter of the night-mode sleep
rot_gate(r, inv, exc, db, t0, nj, sj, mk, pj) ==
    LET k == users[r.idx]
        left == seconds_until_window_end(t0, cfg.night_start, cfg.night_end)
        t1 == IF cfg.night_mode
                 /\ is_time_in_window(t0, cfg.night_start, cfg.night_end)
                 /\ left > 0
              THEN t0 + left * 100 + nj
              ELSE t0
        ua == [r.user_attempts EXCEPT ![k] = @ + 1]
    IN  IF is_excluded(r.excluded_cache, k)
        THEN WithPut(Result([r EXCEPT !.skip_cnt = @ + 1, !.idx = @ + 1,
                                      !.ev = "excluded", !.sig = "none"],
                            inv, exc, db, t1, 0),
                     r.target, k, "skip")
        ELSE IF is_terminal(ledger_get(inv, r.target, k))
        THEN Result([r EXCEPT !.skip_cnt = @ + 1, !.idx = @ + 1,
                              !.ev = "ledger_skip", !.sig = "none"],
                    inv, exc, db, t1, 0)
        ELSE IF user_capped(ua[k], cfg.max_user_attempts)
        THEN WithPut(Result([r EXCEPT !.user_attempts = ua, !.skip_cnt = @ + 1,
                                      !.idx = @ + 1, !.ev = "capped", !.sig = "none"],
                            inv, exc, db, t1, 0),
                     r.target, k, "skip")
        ELSE rot_pick([r EXCEPT !.user_attempts = ua], inv, exc, db, t1, sj, mk, pj)

Commit(p, res) ==
    /\ faults + res.fault <= MaxFaults
    /\ run' = [run EXCEPT ![p] = res.run]
    /\ invites' = res.invites
    /\ excluded_users' = res.excluded_users
    /\ session_stats' = res.session_stats
    /\ now' = res.now
    /\ faults' = faults + res.fault
    /\ lastPut' = IF res.put = << >> THEN lastPut
                  ELSE [lastPut EXCEPT ![<<res.put[1], res.put[2]>>] = res.put[3]]

RotateGate(p) ==
    /\ run[p].pc = "loop"
    /\ run[p].mode = "rotate"
    /\ run[p].idx <= Len(users)
    /\ \E nj \in Draw(NightJitters), sj \in Draw(ReadyJitters), mk \in MakeOutcomes,
          pj \in Draw({cfg.jitter_min, cfg.jitter_max}) :
          Commit(p, rot_gate(run[p], invites, excluded_users, session_stats, now,
                             nj, sj, mk, pj))
    /\ UNCHANGED <<cfg, users, parsed, nruns, env, sent, okTimes>>

\* the success branch on the chosen actor's state (lines 1219-1237)
\*   rp: the drawn rotation penalty
on_success(st, r, sf, t, rp) ==
    LET c == session_consume_invite_token(st, cfg.per_hour_limit, cfg.per_day_limit, t)
        b == [c EXCEPT !.ok = @ + 1, !.last_invite_at = t,
                       !.next_invite_at = t + Max2(DelayFloor, r.delay)]
    IN  IF cfg.rotate_every # 0 /\ r.ok_in_session[sf] + 1 >= cfg.rotate_every
        THEN [b EXCEPT !.next_invite_at = Max2(@, t + rp)]
        ELSE b

\* the chosen actor's state after the handler of outcome o (lines 1213-1399)
rot_session_after(st, r, sf, t, o, rp) ==
    CASE o.sig = "ok" -> on_success(st, r, sf, t, rp)
      [] o.sig \in ForbiddenSignals ->
            [st EXCEPT !.fail = @ + 1, !.blocked_until = Max2(@, t + ForbiddenBlock)]
      [] o.sig = "floodwait" ->
            [st EXCEPT !.fail = @ + 1,
                       !.blocked_until = Max2(@, t + o.sec + cfg.floodwait_buffer_seconds)]
      [] o.sig = "peerflood" ->
            [st EXCEPT !.fail = @ + 1,
                       !.frozen_until = Max2(@, t + cfg.peerflood_freeze_hours * HourWindow)]
      [] o.sig = "network" ->
            [st EXCEPT !.fail = @ + 1, !.blocked_until = Max2(@, t + NetworkBlock)]
      [] o.sig \in {"rpc_error", "other"} -> [st EXCEPT !.fail = @ + 1]
      [] OTHER -> st

\* a success nudge without its band
rot_delay_after_unclamped(delay, o, nudge) ==
    CASE o.sig = "ok" -> delay + nudge
      [] o.sig = "floodwait" -> Min2(BackoffHigh, Max2(delay, BackoffLow))
      [] OTHER -> delay

\* the global delay after the handler (lines 1231, 1341)
rot_delay_after(delay, o, nudge) ==
    CASE o.sig = "ok" -> Min2(DelayHigh, Max2(DelayLow, delay + nudge))
      [] o.sig = "floodwait" -> Min2(BackoffHigh, Max2(delay, BackoffLow))
      [] OTHER -> delay

\* lines 1207-1411: the dispatch on r.cur, its handler, the save and the
\* per-session attempt cap
\*   o: the provider's answer, nudge: the drawn delay change,
\*   rp, ap: the drawn rotation and attempt-cap penalties
rot_dispatch(r, inv, exc, db, t, o, nudge, rp, ap) ==
    LET sf == r.cur
        k == users[r.idx]
        st0 == [r.states[sf] EXCEPT !.attempts = @ + 1]
        ais == r.attempts_in_session[sf] + 1
        st1 == rot_session_after(st0, r, sf, t, o, rp)
        rotated == o.sig = "ok" /\ cfg.rotate_every # 0
                   /\ r.ok_in_session[sf] + 1 >= cfg.rotate_every
        capped == cfg.max_attempts_per_session # 0
                  /\ ais >= cfg.max_attempts_per_session
        st2 == IF capped THEN [st1 EXCEPT !.next_invite_at = Max2(@, t + ap)] ELSE st1
        forced == r.client_cache[sf] = "disconnected"
        f == IF o.sig = "ok" \/ forced THEN 0 ELSE 1
        hist == [r EXCEPT !.ndisp = @ + 1, !.ev = "dispatch", !.sig = o.sig,
                          !.last_actor = sf, !.last_sig = o.sig, !.sec = o.sec,
                          !.all_ok = (@ /\ o.sig = "ok"),
                          !.streak = IF o.sig # "ok" THEN [actor |-> "none", n |-> 0]
                                     ELSE IF @.actor = sf THEN [actor |-> sf, n |-> @.n + 1]
                                     ELSE [actor |-> sf, n |-> 1]]
        res ==
          IF o.sig \in RotateFatal
          THEN Result([hist EXCEPT !.states[sf] = st0, !.attempts_in_session[sf] = ais,
                                   !.pc = "exit", !.halted = TRUE],
                      inv, exc, db, t, f)
          ELSE Result([hist EXCEPT
                        !.states[sf] = st2,
                        !.attempts_in_session[sf] = IF capped THEN 0 ELSE ais,
                        !.ok_in_session[sf] =
                            IF o.sig # "ok" THEN @ ELSE IF rotated THEN 0 ELSE @ + 1,
                        !.ok_cnt = IF o.sig = "ok" THEN @ + 1 ELSE @,
                        !.skip_cnt = IF o.sig \in SkipSignals THEN @ + 1 ELSE @,
                        !.fail_cnt = IF o.sig \in FailSignals THEN @ + 1 ELSE @,
                        !.delay = rot_delay_after(@, o, nudge),
                        !.excluded_cache =
                            IF ExcludeAdds(o.sig) > 0 THEN @ \cup {k} ELSE @,
                        !.client_cache[sf] =
                            IF o.sig = "network" THEN "disconnected" ELSE @,
                        !.ses_stats[sf] =
                            IF SesStatKey(o.sig) = "none" THEN @
                            ELSE [@ EXCEPT ![SesStatKey(o.sig)] = @ + 1],
                        !.idx = @ + 1, !.pc = "loop"],
                      inv, excluded_add_n(exc, k, ExcludeAdds(o.sig)),
                      session_stats_save(db, sf, st1), t, f)
    IN  IF o.sig = "network" THEN res
        ELSE WithPut(res, r.target, k, LedgerStatus(o.sig))

History(p, o) ==
    /\ sent' = [sent EXCEPT ![<<run[p].target, users[run[p].idx]>>] =
                                [n |-> @.n + 1, last |-> o.sig]]
    /\ okTimes' = IF o.sig = "ok" /\ run[p].mode = "rotate"
                  THEN [okTimes EXCEPT ![run[p].cur] = Append(@, now)]
                  ELSE okTimes

RotateDispatch(p) ==
    /\ run[p].pc = "dispatch"
    /\ run[p].mode = "rotate"
    /\ \E o \in {x \in ProviderOutcomes : x.sig \in env.signals},
          nudge \in Draw(DelayNudges),
          rp \in Draw(RotatePenalties), ap \in Draw(AttemptPenalties) :
          /\ run[p].client_cache[run[p].cur] = "disconnected" => o.sig = "network"
          /\ Commit(p, rot_dispatch(run[p], invites, excluded_users, session_stats,
                                    now, o, nudge, rp, ap))
          /\ History(p, o)
    /\ UNCHANGED <<cfg, users, parsed, nruns, env>>

\* --------------------------------------------------------- inviting: loop
\* lines 1457-1469: the gates and the sleep before the dispatch
single_gate(r, inv, exc, db, t, pj) ==
    LET k == users[r.idx]
    IN  IF is_excluded(r.excluded_cache, k)
        THEN Result([r EXCEPT !.skip_cnt = @ + 1, !.idx = @ + 1,
                              !.ev = "excluded", !.sig = "none"],
                    inv, exc, db, t, 0)
        ELSE IF is_terminal(ledger_get(inv, r.target, k))
        THEN Result([r EXCEPT !.skip_cnt = @ + 1, !.idx = @ + 1,
                              !.ev = "ledger_skip", !.sig = "none"],
                    inv, exc, db, t, 0)
        ELSE Result([r EXCEPT !.pc = "dispatch", !.ev = "picked", !.sig = "none"],
                    inv, exc, db, t + r.delay + pj, 0)

SingleGate(p) ==
    /\ run[p].pc = "loop"
    /\ run[p].mode = "single"
    /\ run[p].idx <= Len(users)
    /\ \E pj \in Draw(SingleJitters) :
          Commit(p, single_gate(run[p], invites, excluded_users, session_stats, now, pj))
    /\ UNCHANGED <<cfg, users, parsed, nruns, env, sent, okTimes>>

single_delay_after(delay, o, nudge) ==
    CASE o.sig = "ok" -> Min2(SingleDelayHigh, Max2(DelayLow, delay + nudge))
      [] o.sig = "floodwait" -> Min2(SingleBackoffHigh, Max2(delay, BackoffLow))
      [] OTHER -> delay

\* inviting's handlers exclude once for either diagnosis (lines 1535-1538)
SingleExcludeAdds(sig) ==
    IF sig \in ExcludeSignals \cup {"forbidden_perm_np", "forbidden_part_np"} THEN 1 ELSE 0

SingleFailSignals == FailSignals \ {"peerflood"}

\* lines 1471-1597: the dispatch and its handler
\*   fj: jitter of the sleep after a FloodWait
single_dispatch(r, inv, exc, db, t, o, nudge, fj) ==
    LET k == users[r.idx]
        f == IF o.sig = "ok" THEN 0 ELSE 1
        t1 == CASE o.sig = "floodwait" -> t + o.sec + fj
                [] o.sig = "network" -> t + SingleNetworkSleep
                [] OTHER -> t
        hist == [r EXCEPT !.ndisp = @ + 1, !.ev = "dispatch", !.sig = o.sig,
                          !.last_actor = r.cur, !.last_sig = o.sig, !.sec = o.sec,
                          !.all_ok = (@ /\ o.sig = "ok")]
        res ==
          IF o.sig \in SingleFatal
          THEN Result([hist EXCEPT !.pc = "exit", !.halted = TRUE], inv, exc, db, t, f)
          ELSE Result([hist EXCEPT
                        !.ok_cnt = IF o.sig = "ok" THEN @ + 1 ELSE @,
                        !.skip_cnt = IF o.sig \in SkipSignals THEN @ + 1 ELSE @,
                        !.fail_cnt = IF o.sig \in SingleFailSignals THEN @ + 1 ELSE @,
                        !.delay = single_delay_after(@, o, nudge),
                        !.excluded_cache =
                            IF SingleExcludeAdds(o.sig) > 0 THEN @ \cup {k} ELSE @,
                        !.idx = @ + 1, !.pc = "loop"],
                      inv, excluded_add_n(exc, k, SingleExcludeAdds(o.sig)), db, t1, f)
    IN  WithPut(res, r.target, k, LedgerStatus(o.sig))

SingleDispatch(p) ==
    /\ run[p].pc = "dispatch"
    /\ run[p].mode = "single"
    /\ \E o \in {x \in ProviderOutcomes : x.sig \in env.signals},
          nudge \in Draw(SingleNudges),
          fj \in Draw(SingleFloodJitters) :
          /\ Commit(p, single_dispatch(run[p], invites, excluded_users, session_stats,
                                       now, o, nudge, fj))
          /\ History(p, o)
    /\ UNCHANGED <<cfg, users, parsed, nruns, env>>

\* ------------------------------------------------------------------ run end
\* the summary after the loop, close_all_clients, conn.close() (1413-1430, 1599)
Finish(p) ==
    /\ \/ run[p].pc = "exit"
       \/ run[p].pc = "loop" /\ run[p].idx > Len(users)
    /\ run' = [run EXCEPT ![p] =
                  [@ EXCEPT !.pc = "done", !.cur = "none",
                            !.client_cache = [a \in Actors |-> "none"]]]
    /\ UNCHANGED <<invites, excluded_users, session_stats, now, cfg, users, parsed, nruns,
                   faults, env, sent, lastPut, okTimes>>

\* ----------------------------------------------------------------- preflight
\* what preflight finds for one session: _make_client raising RuntimeError
\* (not_authorized), the answer of _ensure_in_target, the permission check
PreflightOutcomes ==
    {"ok", "joined", "not_authorized", "cannot_join", "flood_wait", "network",
     "no_rights", "unknown"}

\* the block preflight sets for an outcome (lines 1839, 1851, 1862, 1891)
PreflightBlock(oc) ==
    CASE oc = "cannot_join" -> PreflightJoinBlock
      [] oc = "flood_wait" -> PreflightFloodBlock
      [] oc = "network" -> PreflightNetworkBlock
      [] oc = "no_rights" -> PreflightRightsBlock

\* the session's state after preflight has handled its outcome
preflight_session_after(st, oc, t) ==
    CASE oc = "not_authorized" ->
             [st EXCEPT !.banned = TRUE, !.fail = @ + 1, !.attempts = @ + 1,
                        !.next_invite_at = Max2(@, t + UnauthorizedPush)]
      [] oc \in {"cannot_join", "flood_wait", "network", "no_rights"} ->
             [st EXCEPT !.blocked_until = Max2(@, t + PreflightBlock(oc)),
                        !.fail = @ + 1, !.attempts = @ + 1]
      [] OTHER -> st

\* the table after preflight_sessions_for_target: the load with its inserts,
\* then a save for every session whose outcome changes its state
preflight_sessions_for_target(db, files, oc, t) ==
    LET db1 == session_stats_insert(db, files)
        sts == session_stats_load(db, files, t)
    IN  [a \in DOMAIN db1 |->
            IF a \in Range(files) /\ oc[a] \notin {"ok", "joined", "unknown"}
            THEN StoredRow(preflight_session_after(sts[a], oc[a], t))
            ELSE db1[a]]

\* main.py line 413: the sessions the run is started with after preflight
ok_list(files, oc) ==
    SelectSeq(files, LAMBDA a : oc[a] = "ok") \o SelectSeq(files, LAMBDA a : oc[a] = "joined")

\* preflight_sessions_for_target called from do_inviting before a rotating
\* run: with no session left the menu returns, else the run starts with them
Preflight(p) ==
    /\ run[p].pc \in {"idle", "done", "crashed"}
    /\ nruns < env.runs
    /\ \E files \in FileLists, oc \in [Actors -> PreflightOutcomes] :
        LET nf == Cardinality({a \in Range(files) : oc[a] \notin {"ok", "joined"}})
            left == ok_list(files, oc)
        IN  /\ \A a \in Actors \ Range(files) : oc[a] = "ok"
            /\ faults + nf <= MaxFaults
            /\ faults' = faults + nf
            /\ session_stats' = preflight_sessions_for_target(session_stats, files, oc, now)
            /\ run' = [run EXCEPT ![p] =
                  [NoRun(IF left = << >> THEN "idle" ELSE "preflighted")
                      EXCEPT !.files = left]]
    /\ UNCHANGED <<invites, excluded_users, now, cfg, users, parsed, nruns, env, sent,
                   lastPut, okTimes>>

\* one call of parse_user_ref on a raw reference, its result remembered
Parse ==
    /\ Len(parsed) < MaxParsed
    /\ \E raw \in RawInputs :
          parsed' = Append(parsed, [raw |-> raw, key |-> parse_user_ref(raw)])
    /\ UNCHANGED <<invites, excluded_users, session_stats, now, cfg, users, run, nruns,
                   faults, env, sent, lastPut, okTimes>>

NextParse == Parse

Next ==
    \/ \E p \in Procs : StartRotate(p)
    \/ \E p \in Procs : StartSingle(p)
    \/ \E p \in Procs : RotateGate(p)
    \/ \E p \in Procs : RotateDispatch(p)
    \/ \E p \in Procs : SingleGate(p)
    \/ \E p \in Procs : SingleDispatch(p)
    \/ \E p \in Procs : Finish(p)

Spec == Init /\ [][Next]_vars

SpecDraws == InitDraws /\ [][Next]_vars

SpecTwo == InitTwo /\ [][Next]_vars

SpecNight == InitNight /\ [][Next]_vars

SpecCap == InitCap /\ [][Next]_vars

SpecTarget == InitTarget /\ [][Next]_vars

SpecDelay == InitDelay /\ [][Next]_vars

\* do_inviting asks for the limits of each run (main.py 392-401): between two
\* runs the limits change
Reconfigure(p) ==
    /\ run[p].pc \in {"done", "crashed"}
    /\ nruns < env.runs
    /\ \E q \in QuotaLimits :
          /\ CfgLimits(q) # cfg
          /\ cfg' = [cfg EXCEPT !.per_hour_limit = q.h, !.per_day_limit = q.d]
    /\ run' = [run EXCEPT ![p] = NoRun("idle")]
    /\ UNCHANGED <<invites, excluded_users, session_stats, now, users, parsed, nruns,
                   faults, env, sent, lastPut, okTimes>>

\* runs whose limits are entered anew before each run
NextQuota == Next \/ \E p \in Procs : Reconfigure(p)

SpecQuota == InitQuota /\ [][NextQuota]_vars

\* the runs, each rotating one optionally after a preflight
NextPreflight == Next \/ \E p \in Procs : Preflight(p)

SpecPreflight == Init /\ [][NextPreflight]_vars

\* parse_user_ref applied to MaxParsed references
SpecParse == Init /\ [][NextParse]_vars

\* =============================================================== properties
\* a step of process p through the gates of its loop, and through a dispatch
GateStep(p) ==
    /\ run[p].pc = "loop"
    /\ run[p].idx <= Len(users)
    /\ run'[p] # run[p]

DispatchStep(p) ==
    /\ run[p].pc = "dispatch"
    /\ run'[p] # run[p]

\* the ledger rows of a pair, read from the table itself
RowsOf(t, k) == {row \in invites : row.target = t /\ row.user_key = k}

DistinctCandidates == Cardinality(Range(users)) = Len(users)

\* how often the candidate at position i occurs in the list before position i
OccurrencesBefore(i) == Cardinality({j \in 1..(i - 1) : users[j] = users[i]})

\* C1: in both loops, a candidate whose ledger row for the run's target has
\* status ok, already, privacy or invalid when the loop reaches it is not
\* dispatched, and skip_cnt grows by one; in the first run and in later runs.
C1_TerminalSkipped ==
    [][\A p \in Procs :
         (/\ GateStep(p)
          /\ \E row \in RowsOf(run[p].target, users[run[p].idx]) :
                 row.status \in {"ok", "already", "privacy", "invalid"})
         => /\ run'[p].pc # "dispatch"
            /\ run'[p].ndisp = run[p].ndisp
            /\ sent' = sent
            /\ run'[p].skip_cnt = run[p].skip_cnt + 1]_vars

\* a later run has reached a candidate it dispatched with success before, and
\* has skipped it at the ledger gate
C1_Witness ==
    \E p \in Procs :
        /\ nruns = 2
        /\ run[p].ev = "ledger_skip"
        /\ run[p].skip_cnt >= 1
        /\ sent[<<run[p].target, users[run[p].idx - 1]>>] = [n |-> 1, last |-> "ok"]

\* C2 as stated: over any sequence of runs against the same store, no
\* (target, candidate) pair is dispatched more than once, whatever the outcome
\* of its first dispatch.
C2_NoPairTwice == \A tk \in Targets \X Keys : sent[tk].n <= 1

\* C2 amended: a pair is dispatched again only if its previous dispatch did
\* not end with ok, already, privacy or invalid and the candidate is not in
\* the exclusion store.
C2_NoRedispatchAfterTerminal ==
    [][\A p \in Procs :
         DispatchStep(p)
         => /\ sent[<<run[p].target, users[run[p].idx]>>].last
                  \notin {"ok", "already", "privacy", "invalid"}
            /\ excluded_users[users[run[p].idx]] = 0]_vars

\* a pair was dispatched twice (a retriable answer, then another one), and a
\* later pass over it was stopped at a gate
C2_Witness ==
    \E p \in Procs :
        /\ run[p].idx > 1
        /\ run[p].ev \in {"ledger_skip", "excluded"}
        /\ sent[<<run[p].target, users[run[p].idx - 1]>>].n = 2

\* C3 as stated: with K of the N distinct candidates terminal in the ledger at
\* the start of a run, the run sends at most N-K dispatches and ends with
\* skip_cnt >= K.
C3_Idempotence ==
    \A p \in Procs :
        (DistinctCandidates /\ run[p].pc = "done")
        => /\ run[p].ndisp <= Len(users) - run[p].k0
           /\ run[p].skip_cnt >= run[p].k0

\* C3 amended: the run never sends more than N-K dispatches, and it ends
\* with skip_cnt >= K if it was not stopped before the end of the list.
C3_IdempotenceUnlessHalted ==
    \A p \in Procs :
        (DistinctCandidates /\ run[p].mode # "none")
        => /\ run[p].ndisp <= Len(users) - run[p].k0
           /\ (run[p].pc = "done" /\ ~run[p].halted) => run[p].skip_cnt >= run[p].k0

\* a rerun over a ledger with two terminal candidates has dispatched the third
\* one and has ended
C3_Witness ==
    \E p \in Procs :
        /\ DistinctCandidates
        /\ run[p].pc = "done"
        /\ ~run[p].halted
        /\ run[p].k0 = 2
        /\ run[p].ndisp = 1
        /\ run[p].skip_cnt = 2

\* C4: after any sequence of ledger_put calls, those of two interleaved
\* connections included, the ledger holds at most one row per
\* (target_key, candidate_key), and the row has the status of the last put.
C4_LedgerUnique ==
    \A t \in Targets, k \in Keys :
        /\ Cardinality(RowsOf(t, k)) <= 1
        /\ \A row \in RowsOf(t, k) : row.status = lastPut[<<t, k>>]
        /\ lastPut[<<t, k>>] # "none" => RowsOf(t, k) # {}

\* both orchestrators have dispatched the first candidate for the same target,
\* each with its own ledger_put, and are still in their loops
C4_Witness ==
    /\ run[1].target = run[2].target
    /\ run[1].idx = 2 /\ run[2].idx = 2
    /\ run[1].ndisp = 1 /\ run[2].ndisp = 1
    /\ sent[<<run[1].target, users[1]>>].n = 2
    /\ Cardinality(RowsOf(run[1].target, users[1])) = 1

\* C5: while a candidate_key is in the exclusion store, no run dispatches
\* that candidate, for any target, in the run that excluded it or a later one.
C5_ExcludedNeverDispatched ==
    [][\A tk \in Targets \X Keys :
         excluded_users[tk[2]] > 0 => sent'[tk] = sent[tk]]_vars

\* a later run against the other target has reached a candidate excluded by
\* the first run, and has skipped it
C5_Witness ==
    \E p \in Procs :
        /\ nruns = 2
        /\ run[p].target = "@T2"
        /\ run[p].ev = "excluded"
        /\ excluded_users[users[run[p].idx - 1]] > 0
        /\ sent[<<"@T1", users[run[p].idx - 1]>>].n = 1
        /\ sent[<<"@T2", users[run[p].idx - 1]>>].n = 0

\* C6: when the loop reaches a candidate of the exclusion cache it sends no
\* dispatch, adds exactly one to skip_cnt, and leaves every actor's session
\* state as it was, in memory and in the store.
C6_ExcludedSkipFrame ==
    [][\A p \in Procs :
         (GateStep(p) /\ users[run[p].idx] \in run[p].excluded_cache)
         => /\ run'[p].pc # "dispatch"
            /\ sent' = sent
            /\ run'[p].skip_cnt = run[p].skip_cnt + 1
            /\ run'[p].states = run[p].states
            /\ session_stats' = session_stats]_vars

\* a rotating run whose actors have a history has skipped a candidate at the
\* exclusion gate
C6_Witness ==
    \E p \in Procs :
        /\ run[p].mode = "rotate"
        /\ run[p].ev = "excluded"
        /\ run[p].skip_cnt >= 1
        /\ \E a \in Range(run[p].files) : run[p].states[a].attempts > 0

\* C7 as stated: with per_hour_limit = H > 0, no interval of 3600 seconds
\* holds more than H successful dispatches of one actor.
C7_RollingQuota ==
    cfg.per_hour_limit > 0 =>
        \A a \in Actors : \A i \in DOMAIN okTimes[a] :
            Cardinality({j \in DOMAIN okTimes[a] :
                            /\ okTimes[a][j] <= okTimes[a][i]
                            /\ okTimes[a][i] - okTimes[a][j] < HourWindow})
                <= cfg.per_hour_limit

\* C8 as stated: with rotate_every = N > 0, an actor gets a success beyond its
\* N-th consecutive one only if no other non-banned actor was ready when the
\* scheduler picked it.
C8_RotationBound ==
    \A p \in Procs :
        (/\ run[p].mode = "rotate"
         /\ cfg.rotate_every > 0
         /\ run[p].ev = "dispatch"
         /\ run[p].streak.n > cfg.rotate_every)
        => run[p].others_ready = {}

C10_NoErrorPropagates == \A p \in Procs : run[p].pc # "crashed"


\* the ledger rows of a pair after the step
RowsAfter(t, k) == {row \in invites' : row.target = t /\ row.user_key = k}

\* C11: a FloodWait of W seconds on actor A (W below or above
\* switch_on_floodwait_seconds) sets A's blocked_until to
\* now + W + floodwait_buffer_seconds, records the pair as floodwait and
\* excludes nobody; the next dispatch goes to another actor if one is ready
\* when the scheduler picks, and otherwise the run sleeps and sends nothing on
\* A before A's blocked_until.
C11_FloodWaitBlocksAndRoutes ==
    [][\A p \in Procs :
         /\ (/\ DispatchStep(p)
             /\ run[p].mode = "rotate"
             /\ run'[p].sig = "floodwait")
            => /\ run'[p].states[run[p].cur].blocked_until
                    = now + run'[p].sec + cfg.floodwait_buffer_seconds
               /\ RowsAfter(run[p].target, users[run[p].idx])
                    = {[target |-> run[p].target, user_key |-> users[run[p].idx],
                        status |-> "floodwait"]}
               /\ excluded_users' = excluded_users
               /\ run'[p].excluded_cache = run[p].excluded_cache
         /\ (/\ GateStep(p)
             /\ run[p].mode = "rotate"
             /\ run[p].last_sig = "floodwait"
             /\ run'[p].pc = "dispatch")
            => /\ (run'[p].ready_before \ {run[p].last_actor} # {})
                    => run'[p].cur \in run'[p].ready_before \ {run[p].last_actor}
               /\ (run'[p].cur = run[p].last_actor)
                    => now' >= run[p].states[run[p].last_actor].blocked_until]_vars

\* after a FloodWait above the switch threshold on one actor, the next
\* candidate is about to be dispatched on another actor while the first one
\* is still blocked
C11_Witness ==
    \E p \in Procs :
        /\ run[p].pc = "dispatch"
        /\ run[p].mode = "rotate"
        /\ run[p].last_sig = "floodwait"
        /\ run[p].sec > cfg.switch_on_floodwait_seconds
        /\ run[p].cur # run[p].last_actor
        /\ run[p].states[run[p].last_actor].blocked_until > now


\* C12: a PeerFlood on actor A in a rotating run sets A's frozen_until to
\* now + peerflood_freeze_hours * 3600 s, in memory and in the store; the
\* stored value never decreases, and no rotating run, this one or a later one
\* on the same store, dispatches on an actor before its frozen_until, whatever
\* its blocked_until and next_invite_at are.
C12_PeerFloodFreezes ==
    [][/\ \A a \in DOMAIN session_stats :
            session_stats'[a].frozen_until >= session_stats[a].frozen_until
       /\ \A p \in Procs :
            (DispatchStep(p) /\ run[p].mode = "rotate")
            => /\ now >= session_stats[run[p].cur].frozen_until
               /\ now >= run[p].states[run[p].cur].frozen_until
               /\ run'[p].sig = "peerflood"
                    => /\ run'[p].states[run[p].cur].frozen_until
                            = now + cfg.peerflood_freeze_hours * 360000
                       /\ session_stats'[run[p].cur].frozen_until
                            = now + cfg.peerflood_freeze_hours * 360000]_vars

\* a later rotating run is about to dispatch on B while A, frozen by a
\* PeerFlood of the run before, has no other cool-down left
C12_Witness ==
    \E p \in Procs :
        /\ nruns = 2
        /\ run[p].mode = "rotate"
        /\ run[p].pc = "dispatch"
        /\ run[p].cur = "B"
        /\ "A" \in Range(run[p].files)
        /\ run[p].states["A"].frozen_until > now
        /\ run[p].states["A"].blocked_until <= now
        /\ run[p].states["A"].next_invite_at <= now
        /\ run[p].states["A"].fail = 1


\* C13: a run that starts on an empty ledger and an empty exclusion store,
\* over N distinct candidates, in which each of the N candidates is dispatched
\* and every dispatch succeeds, ends with ok_cnt = N, skip_cnt = 0,
\* fail_cnt = 0 and exactly N ledger rows for the target, all with status ok.
C13_AllSucceed ==
    \A p \in Procs :
        (/\ run[p].pc = "done"
         /\ DistinctCandidates
         /\ run[p].fresh
         /\ run[p].all_ok
         /\ run[p].ndisp = Len(users))
        => /\ run[p].ok_cnt = Len(users)
           /\ run[p].skip_cnt = 0
           /\ run[p].fail_cnt = 0
           /\ {row \in invites : row.target = run[p].target}
                = {[target |-> run[p].target, user_key |-> k, status |-> "ok"] :
                      k \in Range(users)}


\* a rotating run with two actors has ended after three successes out of
\* three candidates on an empty store
C13_Witness ==
    \E p \in Procs :
        /\ run[p].pc = "done"
        /\ run[p].mode = "rotate"
        /\ run[p].files = <<"A", "B">>
        /\ DistinctCandidates
        /\ run[p].fresh
        /\ run[p].all_ok
        /\ run[p].ndisp = 3
        /\ run[p].ok_cnt = 3


\* the instant t lies in the pause window of the options, between night_start
\* and night_end o'clock (a window with start > end crosses midnight)
InNightWindow(t) ==
    LET tod == t % DayWindow
        start == (cfg.night_start[1] * 60 + cfg.night_start[2]) * 6000
        end == (cfg.night_end[1] * 60 + cfg.night_end[2]) * 6000
    IN  IF start <= end THEN start <= tod /\ tod <= end
        ELSE tod >= start \/ tod <= end

\* C14 as stated: with night_mode on, a rotating run sends no dispatch at an
\* instant inside the window [night_start, night_end].
C14_NoDispatchAtNight ==
    \A p \in Procs :
        (cfg.night_mode /\ run[p].mode = "rotate" /\ run[p].pc = "dispatch")
        => ~InNightWindow(now)


\* C15 as stated: at every boundary between two candidates and at the halt of
\* a rotating run, the stored session_stats row of every actor of the run
\* equals the actor's SessionState in memory.
C15_StoredEqualsMemory ==
    \A p \in Procs :
        (run[p].mode = "rotate" /\ run[p].ndisp > 0
         /\ run[p].pc \in {"loop", "exit", "done"})
        => \A a \in Range(run[p].files) :
               RowState(session_stats[a]) = run[p].states[a]

\* C16: in a rotating run, each of the outcomes privacy-restricted,
\* not-mutual-contact, too-many-groups, already-removed, blocked-by-target-user,
\* invalid identifier and missing resolution token leaves one ledger row of
\* the pair with status privacy, skip, skip, skip, skip, invalid, skip, adds
\* the candidate to the exclusion store and to the in-run cache, adds one to
\* skip_cnt only, and leaves the actor's blocked_until, frozen_until, banned
\* and fail as they were; the saved row keeps next_invite_at too.
C16_ExcludingOutcomes ==
    [][\A p \in Procs :
         (/\ DispatchStep(p)
          /\ run[p].mode = "rotate"
          /\ run'[p].sig \in {"privacy", "not_mutual", "channels_too_much", "kicked",
                              "blocked", "invalid", "value_error"})
         => LET k == users[run[p].idx]
                a == run[p].cur
                before == run[p].states[a]
                after == run'[p].states[a]
                status == IF run'[p].sig = "privacy" THEN "privacy"
                          ELSE IF run'[p].sig = "invalid" THEN "invalid"
                          ELSE "skip"
            IN  /\ RowsAfter(run[p].target, k) =
                       {[target |-> run[p].target, user_key |-> k, status |-> status]}
                /\ excluded_users'[k] = excluded_users[k] + 1
                /\ run'[p].excluded_cache = run[p].excluded_cache \cup {k}
                /\ run'[p].skip_cnt = run[p].skip_cnt + 1
                /\ run'[p].ok_cnt = run[p].ok_cnt
                /\ run'[p].fail_cnt = run[p].fail_cnt
                /\ after.blocked_until = before.blocked_until
                /\ after.frozen_until = before.frozen_until
                /\ after.banned = before.banned
                /\ after.fail = before.fail
                /\ session_stats'[a].blocked_until = before.blocked_until
                /\ session_stats'[a].frozen_until = before.frozen_until
                /\ session_stats'[a].next_invite_at = before.next_invite_at
                /\ run'[p].pc = "loop"]_vars

\* a rotating run has just handled a missing resolution token: the pair's row
\* says skip and the candidate is in the store and in the cache
C16_Witness ==
    \E p \in Procs :
        /\ run[p].mode = "rotate"
        /\ run[p].pc = "loop"
        /\ run[p].ev = "dispatch"
        /\ run[p].sig = "value_error"
        /\ run[p].idx > 1
        /\ users[run[p].idx - 1] \in run[p].excluded_cache
        /\ excluded_users[users[run[p].idx - 1]] > 0
        /\ RowsOf(run[p].target, users[run[p].idx - 1]) =
               {[target |-> run[p].target, user_key |-> users[run[p].idx - 1],
                 status |-> "skip"]}
        /\ run[p].skip_cnt > 0

\* C17 as stated: a write-forbidden outcome on actor A in a rotating run
\* records the pair as forbidden, sets A's blocked_until to at least
\* now + 7 days, and adds the candidate neither to the exclusion store nor to
\* the in-run cache.
C17_ForbiddenNeverExcludes ==
    [][\A p \in Procs :
         (/\ DispatchStep(p)
          /\ run[p].mode = "rotate"
          /\ run'[p].sig \in {"forbidden", "forbidden_perm_np", "forbidden_part_np"})
         => LET k == users[run[p].idx]
                a == run[p].cur
            IN  /\ RowsAfter(run[p].target, k) =
                       {[target |-> run[p].target, user_key |-> k, status |-> "forbidden"]}
                /\ run'[p].states[a].blocked_until >= now + 7 * 24 * 360000
                /\ excluded_users' = excluded_users
                /\ run'[p].excluded_cache = run[p].excluded_cache]_vars

\* C18 as stated: a network failure during a dispatch on actor A in a rotating
\* run leaves the pair's ledger row with status failed, sets A's blocked_until
\* to at least now + 60 s, does not exclude the candidate, and the run goes on.
C18_NetworkRecordsFailed ==
    [][\A p \in Procs :
         (/\ DispatchStep(p)
          /\ run[p].mode = "rotate"
          /\ run'[p].sig = "network")
         => LET k == users[run[p].idx]
                a == run[p].cur
            IN  /\ RowsAfter(run[p].target, k) =
                       {[target |-> run[p].target, user_key |-> k, status |-> "failed"]}
                /\ run'[p].states[a].blocked_until >= now + 6000
                /\ excluded_users' = excluded_users
                /\ run'[p].excluded_cache = run[p].excluded_cache
                /\ run'[p].pc = "loop"]_vars

\* C19: in a rotating run an unclassified provider failure (an RPC error or
\* an exception no earlier handler matches) leaves the pair's ledger row with
\* status failed, adds one to the actor's fail counter and to fail_cnt, and
\* adds the candidate neither to the exclusion store nor to the cache; a later
\* rotating run that reaches a pair whose row says failed does not skip it at
\* the ledger gate, and dispatches it when a session is picked.
C19_UnclassifiedFailure ==
    [][\A p \in Procs :
         /\ (/\ DispatchStep(p)
             /\ run[p].mode = "rotate"
             /\ run'[p].sig \in {"rpc_error", "other"})
            => LET k == users[run[p].idx]
                   a == run[p].cur
               IN  /\ RowsAfter(run[p].target, k) =
                          {[target |-> run[p].target, user_key |-> k, status |-> "failed"]}
                   /\ run'[p].states[a].fail = run[p].states[a].fail + 1
                   /\ session_stats'[a].fail = run[p].states[a].fail + 1
                   /\ run'[p].fail_cnt = run[p].fail_cnt + 1
                   /\ run'[p].ok_cnt = run[p].ok_cnt
                   /\ run'[p].skip_cnt = run[p].skip_cnt
                   /\ excluded_users' = excluded_users
                   /\ run'[p].excluded_cache = run[p].excluded_cache
                   /\ run'[p].pc = "loop"
         /\ (/\ GateStep(p)
             /\ run[p].mode = "rotate"
             /\ users[run[p].idx] \notin run[p].excluded_cache
             /\ \E row \in RowsOf(run[p].target, users[run[p].idx]) :
                    row.status = "failed")
            => /\ run'[p].ev \notin {"excluded", "ledger_skip"}
               /\ run'[p].ev = "picked" => run'[p].pc = "dispatch"]_vars

\* a second run is about to dispatch a pair whose earlier dispatch ended in an
\* unclassified failure and whose row says failed
C19_Witness ==
    \E p \in Procs :
        LET k == users[run[p].idx]
        IN  /\ nruns = 2
            /\ run[p].mode = "rotate"
            /\ run[p].pc = "dispatch"
            /\ sent[<<run[p].target, k>>].n >= 1
            /\ sent[<<run[p].target, k>>].last \in {"rpc_error", "other"}
            /\ RowsOf(run[p].target, k) =
                   {[target |-> run[p].target, user_key |-> k, status |-> "failed"]}
            /\ excluded_users[k] = 0

\* C20: in both loops an already-a-member outcome leaves the pair's ledger row
\* with status already, counts a skip, and adds the candidate neither to the
\* exclusion store nor to the cache; a run that reaches a candidate whose only
\* terminal row belongs to a different target, and who is not excluded, does
\* not skip it at the exclusion gate or at the ledger gate.
C20_AlreadyIsPerTarget ==
    [][\A p \in Procs :
         /\ (DispatchStep(p) /\ run'[p].sig = "already")
            => LET k == users[run[p].idx]
               IN  /\ RowsAfter(run[p].target, k) =
                          {[target |-> run[p].target, user_key |-> k, status |-> "already"]}
                   /\ run'[p].skip_cnt = run[p].skip_cnt + 1
                   /\ excluded_users' = excluded_users
                   /\ run'[p].excluded_cache = run[p].excluded_cache
                   /\ run'[p].pc = "loop"
         /\ (/\ GateStep(p)
             /\ users[run[p].idx] \notin run[p].excluded_cache
             /\ RowsOf(run[p].target, users[run[p].idx]) = {}
             /\ \E row \in invites :
                    /\ row.user_key = users[run[p].idx]
                    /\ row.target # run[p].target
                    /\ row.status = "already")
            => run'[p].ev \notin {"excluded", "ledger_skip"}]_vars

\* a second run, against the other target, is about to dispatch a candidate
\* who is recorded as already a member of the first target
C20_Witness ==
    \E p \in Procs :
        LET k == users[run[p].idx]
        IN  /\ nruns = 2
            /\ run[p].pc = "dispatch"
            /\ run[p].target = "@T2"
            /\ RowsOf("@T1", k) = {[target |-> "@T1", user_key |-> k, status |-> "already"]}
            /\ RowsOf("@T2", k) = {}
            /\ excluded_users[k] = 0

RECURSIVE SumOver(_, _)
SumOver(f, S) ==
    IF S = {} THEN 0
    ELSE LET a == CHOOSE x \in S : TRUE IN f[a] + SumOver(f, S \ {a})

\* C21 as stated, in its particular case: at the end of a rotating run the sum
\* over the run's actors of the per-actor ok counters of the summary equals
\* ok_cnt.
C21_SummaryOkSum ==
    \A p \in Procs :
        (run[p].mode = "rotate" /\ run[p].pc \in {"exit", "done"})
        => SumOver([a \in Actors |-> run[p].ses_stats[a]["ok"]], Range(run[p].files))
               = run[p].ok_cnt

\* the state the claim expects session_stats_load to return at time t for a
\* saved state st
C22_Expected(st, t) ==
    [st EXCEPT
        !.hour_window_start = IF t - st.hour_window_start >= 360000 THEN t ELSE @,
        !.hour_count = IF t - st.hour_window_start >= 360000 THEN 0 ELSE @,
        !.day_window_start = IF t - st.day_window_start >= 8640000 THEN t ELSE @,
        !.day_count = IF t - st.day_window_start >= 8640000 THEN 0 ELSE @]

\* C22: after every step, for every actor of a run, saving the actor's state
\* and loading it at once, an hour later or a day later returns the same
\* blocked_until, frozen_until, banned, ok, fail, attempts, last_invite_at and
\* next_invite_at, and the same quota windows unless a window has expired, in
\* which case it is {load time, 0}; the states a rotating run starts with are
\* the stored rows read this way; an actor seen for the first time gets a
\* stored row of zeros and the default state; no step deletes a row.
C22_StateSurvivesRestart ==
    [][/\ DOMAIN session_stats \subseteq DOMAIN session_stats'
       /\ \A p \in Procs : \A a \in Range(run'[p].files) :
            \A t \in {now', now' + 360000, now' + 8640000} :
                session_stats_load(session_stats_save(session_stats', a, run'[p].states[a]),
                                   <<a>>, t)[a]
                    = C22_Expected(run'[p].states[a], t)
       /\ \A p \in Procs :
            (run[p].pc \in {"idle", "done", "crashed"} /\ run'[p].mode = "rotate"
             /\ run'[p].pc = "loop")
            => \A a \in Range(run'[p].files) :
                 /\ a \in DOMAIN session_stats'
                 /\ a \in DOMAIN session_stats
                    => /\ session_stats'[a] = session_stats[a]
                       /\ run'[p].states[a]
                              = C22_Expected(RowState(session_stats[a]), now')
                 /\ a \notin DOMAIN session_stats
                    => /\ RowState(session_stats'[a]) = SessionState
                       /\ run'[p].states[a] = C22_Expected(SessionState, now')]_vars

\* a second rotating run has just loaded an actor that the first run saved
\* with a success and a cool-down; its stored hour window has expired
C22_Witness ==
    \E p \in Procs : \E a \in Range(run[p].files) :
        /\ nruns = 2
        /\ run[p].mode = "rotate"
        /\ run[p].pc = "loop"
        /\ run[p].idx = 1
        /\ session_stats[a].ok > 0
        /\ run[p].states[a].ok = session_stats[a].ok
        /\ session_stats[a].blocked_until > 0
        /\ run[p].states[a].blocked_until = session_stats[a].blocked_until
        /\ session_stats[a].banned = 0
        /\ ~run[p].states[a].banned
        /\ session_stats[a].hour_window_start < now
        /\ run[p].states[a].hour_window_start = now
        /\ run[p].states[a].hour_count = 0

\* C23: on the states and the session list of every rotating run,
\* _pick_best_session returns None exactly when every actor of the list is
\* banned; otherwise it returns a non-banned actor of the list whose tuple
\* (max(blocked_until, frozen_until, next_invite_at), last_invite_at,
\* attempts) is not above the tuple of any non-banned actor of the list.
C23_PickIsMinimal ==
    \A p \in Procs :
        run[p].mode = "rotate" =>
            LET st == run[p].states
                live == {a \in Range(run[p].files) : ~st[a].banned}
                got == pick_best_session(st, run[p].files)
                ready(a) == IF st[a].blocked_until >= st[a].frozen_until
                               /\ st[a].blocked_until >= st[a].next_invite_at
                            THEN st[a].blocked_until
                            ELSE IF st[a].frozen_until >= st[a].next_invite_at
                            THEN st[a].frozen_until
                            ELSE st[a].next_invite_at
                leq(a, b) ==
                    \/ ready(a) < ready(b)
                    \/ /\ ready(a) = ready(b)
                       /\ \/ st[a].last_invite_at < st[b].last_invite_at
                          \/ /\ st[a].last_invite_at = st[b].last_invite_at
                             /\ st[a].attempts <= st[b].attempts
            IN  /\ (got = "none") <=> (live = {})
                /\ got # "none" => got \in live /\ \A b \in live : leq(got, b)

\* a rotating run over A and B in which the pick is the second of the list
\* while the first is not banned
C23_Witness ==
    \E p \in Procs :
        /\ run[p].mode = "rotate"
        /\ run[p].pc = "loop"
        /\ run[p].files = <<"A", "B">>
        /\ ~run[p].states["A"].banned
        /\ ~run[p].states["B"].banned
        /\ run[p].ndisp > 0
        /\ pick_best_session(run[p].states, run[p].files) = "B"

\* C24: whenever a rotating run goes from its gates to a dispatch, the chosen
\* actor is not banned and its readiness max(blocked_until, frozen_until,
\* next_invite_at) is not later than the time of the dispatch; when no actor
\* was ready at the first pick, the dispatch is not earlier than the readiness
\* of any non-banned actor that is minimal.
C24_DispatchOnReadyActor ==
    [][\A p \in Procs :
         (GateStep(p) /\ run[p].mode = "rotate" /\ run'[p].pc = "dispatch")
         => LET st == run'[p].states
                a == run'[p].cur
                live == {b \in Range(run'[p].files) : ~st[b].banned}
            IN  /\ a \in live
                /\ st[a].blocked_until <= now'
                /\ st[a].frozen_until <= now'
                /\ st[a].next_invite_at <= now'
                /\ run'[p].ready_before = {}
                   => \E b \in live :
                        /\ \A d \in live : ReadyAt(st[b]) <= ReadyAt(st[d])
                        /\ now' >= ReadyAt(st[b])]_vars

\* a rotating run is about to dispatch after a wait: no actor was ready at the
\* first pick, and the chosen actor has a cool-down that ended during the wait
C24_Witness ==
    \E p \in Procs :
        /\ run[p].mode = "rotate"
        /\ run[p].pc = "dispatch"
        /\ run[p].ready_before = {}
        /\ run[p].states[run[p].cur].blocked_until > 0
        /\ run[p].states[run[p].cur].blocked_until <= now
        /\ run[p].states[run[p].cur].blocked_until > now - 1500

\* C25 as stated: every time a run reaches a candidate that is already in the
\* exclusion store, the candidate's hit count in the store grows by one.
C25_HitsGrowOnEncounter ==
    [][\A p \in Procs :
         (GateStep(p) /\ excluded_users[users[run[p].idx]] > 0)
         => excluded_users'[users[run[p].idx]]
                = excluded_users[users[run[p].idx]] + 1]_vars

\* C26: while a run with a single orchestrator is inside its loop, at every
\* boundary between two candidates, and between the gates and the dispatch of
\* one, the in-run exclusion cache equals the set of candidate_keys that have
\* a row in the exclusion store.
C26_CacheMirrorsStore ==
    \A p \in Procs :
        run[p].pc \in {"loop", "dispatch"}
        => run[p].excluded_cache = {k \in Keys : excluded_users[k] > 0}

\* a run has just excluded a candidate in its handler: the key is in the
\* cache and in the store
C26_Witness ==
    \E p \in Procs :
        /\ run[p].pc = "loop"
        /\ run[p].ev = "dispatch"
        /\ run[p].sig \in {"privacy", "kicked", "forbidden_part_np"}
        /\ run[p].idx > 1
        /\ users[run[p].idx - 1] \in run[p].excluded_cache
        /\ excluded_users[users[run[p].idx - 1]] > 0
        /\ nruns = 2

\* C27 as stated: whenever the quota gate of a rotating run is about to call
\* session_next_time_due_to_limits on an actor's state, the value returned is
\* 0 or a timestamp in the future.
C27_DueIsZeroOrFuture ==
    \A p \in Procs :
        (/\ run[p].mode = "rotate"
         /\ run[p].pc = "loop"
         /\ run[p].idx <= Len(users)
         /\ ~cfg.night_mode
         /\ users[run[p].idx] \notin run[p].excluded_cache
         /\ \A row \in RowsOf(run[p].target, users[run[p].idx]) :
                row.status \notin {"ok", "already", "privacy", "invalid"})
        => \A a \in Range(run[p].files) :
             LET due == session_next_time_due_to_limits(
                            run[p].states[a], cfg.per_hour_limit, cfg.per_day_limit)
             IN  due = 0 \/ due > now

\* C28: in a rotating run that goes on after a dispatch on actor A, when
\* rotate_every = N > 0 and the dispatch is the N-th consecutive success on A,
\* and when max_attempts_per_session = M > 0 and the dispatch is the M-th,
\* 2M-th, ... attempt on A in the run, whatever its outcome, A's
\* next_invite_at after the handling is strictly later than the clock.
C28_PlannedRotationPushes ==
    [][\A p \in Procs :
         (DispatchStep(p) /\ run[p].mode = "rotate" /\ run'[p].pc = "loop")
         => LET a == run[p].cur
            IN  /\ (/\ cfg.rotate_every > 0
                    /\ run'[p].sig = "ok"
                    /\ run'[p].streak.actor = a
                    /\ run'[p].streak.n >= cfg.rotate_every)
                   => run'[p].states[a].next_invite_at > now'
                /\ (/\ cfg.max_attempts_per_session > 0
                    /\ nruns = 1
                    /\ run'[p].states[a].attempts % cfg.max_attempts_per_session = 0)
                   => run'[p].states[a].next_invite_at > now']_vars

\* the second attempt on an actor in a run with max_attempts_per_session = 2
\* has just failed with an outcome that sets no cool-down, and the actor's
\* next_invite_at lies in the future
C28_Witness ==
    \E p \in Procs :
        /\ run[p].mode = "rotate"
        /\ run[p].pc = "loop"
        /\ run[p].ev = "dispatch"
        /\ cfg.max_attempts_per_session = 2
        /\ nruns = 1
        /\ run[p].sig \in {"privacy", "rpc_error"}
        /\ run[p].states[run[p].last_actor].attempts = 2
        /\ run[p].attempts_in_session[run[p].last_actor] = 0
        /\ run[p].states[run[p].last_actor].next_invite_at > now

\* C29 as stated: with max_user_attempts = C > 0, in a rotating run every
\* occurrence of a candidate_key beyond the C-th is not dispatched, adds one
\* to skip_cnt and leaves the pair's ledger row with status skip; in a first
\* run no pair is dispatched more than C times.
C29_CapSkipsInLedger ==
    [][\A p \in Procs :
         /\ (/\ GateStep(p)
             /\ run[p].mode = "rotate"
             /\ cfg.max_user_attempts > 0
             /\ OccurrencesBefore(run[p].idx) >= cfg.max_user_attempts)
            => /\ run'[p].pc # "dispatch"
               /\ run'[p].skip_cnt = run[p].skip_cnt + 1
               /\ RowsAfter(run[p].target, users[run[p].idx]) =
                      {[target |-> run[p].target, user_key |-> users[run[p].idx],
                        status |-> "skip"]}
         /\ (run'[p].mode = "rotate" /\ cfg.max_user_attempts > 0 /\ nruns' = 1)
            => \A k \in Keys :
                 sent'[<<run'[p].target, k>>].n <= cfg.max_user_attempts]_vars

\* C29: with max_user_attempts = C > 0, in a rotating run every occurrence of
\* a candidate_key beyond the C-th is not dispatched and adds one to skip_cnt;
\* it leaves the pair's ledger row with status skip unless the ledger gate
\* stops it first, in which case the terminal row stays; in a first run no
\* pair is dispatched more than C times; the cap stops a candidate only when
\* C > 0 and C occurrences came before.
C29_CapSkips ==
    [][\A p \in Procs :
         /\ (/\ GateStep(p)
             /\ run[p].mode = "rotate"
             /\ cfg.max_user_attempts > 0
             /\ OccurrencesBefore(run[p].idx) >= cfg.max_user_attempts)
            => /\ run'[p].pc # "dispatch"
               /\ run'[p].skip_cnt = run[p].skip_cnt + 1
               /\ IF /\ users[run[p].idx] \notin run[p].excluded_cache
                     /\ \E row \in RowsOf(run[p].target, users[run[p].idx]) :
                            row.status \in {"ok", "already", "privacy", "invalid"}
                  THEN RowsAfter(run[p].target, users[run[p].idx])
                           = RowsOf(run[p].target, users[run[p].idx])
                  ELSE RowsAfter(run[p].target, users[run[p].idx]) =
                           {[target |-> run[p].target, user_key |-> users[run[p].idx],
                             status |-> "skip"]}
         /\ (run'[p].mode = "rotate" /\ cfg.max_user_attempts > 0 /\ nruns' = 1)
            => \A k \in Keys :
                 sent'[<<run'[p].target, k>>].n <= cfg.max_user_attempts
         /\ (GateStep(p) /\ run'[p].ev = "capped")
            => /\ cfg.max_user_attempts > 0
               /\ OccurrencesBefore(run[p].idx) >= cfg.max_user_attempts]_vars

\* with the cap at one, the second occurrence of a candidate whose first
\* dispatch failed has just been stopped by the cap
C29_Witness ==
    \E p \in Procs :
        /\ run[p].mode = "rotate"
        /\ run[p].pc = "loop"
        /\ run[p].ev = "capped"
        /\ cfg.max_user_attempts = 1
        /\ run[p].idx = 3
        /\ sent[<<run[p].target, "k1">>].n = 1
        /\ RowsOf(run[p].target, "k1") =
               {[target |-> run[p].target, user_key |-> "k1", status |-> "skip"]}

\* the target_key prune_users_files computes when do_inviting calls it with
\* target_ref of the chosen destination (main.py 329, 452)
prune_target_key(entity) == target_key(target_ref(entity))

\* C30 as stated: the target_key under which a run reads and writes the ledger
\* is, for the run's destination, the key inviting computes, the key
\* inviting_rotate_sessions computes and the key prune_users_files computes.
C30_TargetKeyStable ==
    \A p \in Procs :
        run[p].mode \in {"single", "rotate"}
        => /\ run[p].target = target_key(run[p].dest)
           /\ run[p].target = target_key(target_ref(run[p].dest))
           /\ run[p].target = prune_target_key(run[p].dest)

\* ------------------------------------------------------------------- C31
\* the handle of a string reference: the text after the at sign, or the whole
\* stripped text
C31_Handle(raw) ==
    LET s == strip(raw.s) IN IF s # << >> /\ Head(s) = "@" THEN Tail(s) ELSE s

\* the id a reference names: the integer, the digit string, or the digits
\* before the colon; -1 when it names none
C31_Id(raw) ==
    IF raw.kind = "int" THEN raw.n
    ELSE LET s == strip(raw.s) IN
         IF isdigit(s) THEN int_of(s)
         ELSE IF colon_match(s) # 0 THEN int_of(SubSeq(s, 1, colon_match(s) - 1))
         ELSE -1

C31_IsAt(raw) == raw.kind = "str" /\ strip(raw.s) # << >> /\ Head(strip(raw.s)) = "@"

\* two references are forms of one name: both strings, their handles equal
\* up to letter case and not empty, and neither an id form unless written
\* with the at sign
C31_SameName(r1, r2) ==
    /\ r1.kind = "str" /\ r2.kind = "str"
    /\ C31_Handle(r1) # << >>
    /\ LET h1 == C31_Handle(r1)
           h2 == C31_Handle(r2)
           low(h) == [i \in 1..Len(h) |->
                        CASE h[i] = "A" -> "a" [] h[i] = "B" -> "b" [] h[i] = "C" -> "c"
                          [] h[i] = "D" -> "d" [] OTHER -> h[i]]
       IN low(h1) = low(h2)
    /\ (C31_IsAt(r1) \/ C31_Id(r1) = -1)
    /\ (C31_IsAt(r2) \/ C31_Id(r2) = -1)

\* a name the bare-handle pattern accepts and that is not all digits
C31_PlainName(raw) ==
    handle_match(C31_Handle(raw)) /\ ~isdigit(C31_Handle(raw))

\* C31 as stated: every reference gets a key of the form id, u or raw; the
\* forms of one id get one key; the at-sign form and the bare form of one
\* name, in any letter case, get one key of the form u
C31_ThreeFormsAndOneKeyPerName ==
    \A i, j \in 1..Len(parsed) :
        /\ parsed[i].key.form \in {"id", "u", "raw"}
        /\ (C31_Id(parsed[i].raw) # -1 /\ ~C31_IsAt(parsed[i].raw)
              /\ C31_Id(parsed[i].raw) = C31_Id(parsed[j].raw) /\ ~C31_IsAt(parsed[j].raw))
             => parsed[i].key = parsed[j].key /\ parsed[i].key.form = "id"
        /\ C31_SameName(parsed[i].raw, parsed[j].raw)
             => parsed[i].key = parsed[j].key /\ parsed[i].key.form = "u"

\* C31, amended: a blank reference gets the key empty and every other one a key
\* of the form id, u or raw; the forms of one id get one key id:<n>; the
\* at-sign form and the bare form of one name, in any letter case, get one key
\* u:<lowercase name> when the name has at least four characters, all letters,
\* digits or underscores, and is not all digits; equal references get equal keys
C31_KeyForms ==
    \A i, j \in 1..Len(parsed) :
        /\ parsed[i].key.form \in {"id", "u", "raw", "empty"}
        /\ parsed[i].key.form = "empty"
             <=> (parsed[i].raw.kind = "str" /\ strip(parsed[i].raw.s) = << >>)
        /\ (C31_Id(parsed[i].raw) # -1 /\ ~C31_IsAt(parsed[i].raw)
              /\ C31_Id(parsed[i].raw) = C31_Id(parsed[j].raw) /\ ~C31_IsAt(parsed[j].raw))
             => /\ parsed[i].key = parsed[j].key
                /\ parsed[i].key = [form |-> "id", text |-> ToString(C31_Id(parsed[i].raw))]
        /\ (C31_SameName(parsed[i].raw, parsed[j].raw) /\ C31_PlainName(parsed[i].raw))
             => parsed[i].key = parsed[j].key /\ parsed[i].key.form = "u"
        /\ parsed[i].raw = parsed[j].raw => parsed[i].key = parsed[j].key

\* the at-sign form and a bare form in another letter case of one name have
\* been parsed to the same key
C31_Witness ==
    /\ Len(parsed) = 2
    /\ parsed[1].raw.kind = "str" /\ parsed[1].raw.s = <<"@", "A", "b", "c", "d">>
    /\ parsed[2].raw.kind = "str" /\ parsed[2].raw.s = <<"A", "B", "c", "d">>
    /\ parsed[1].key = parsed[2].key
    /\ parsed[1].key = [form |-> "u", text |-> "abcd"]


\* ------------------------------------------------------------------- C32
\* C32: in a rotating run, right after a dispatch answered floodwait or
\* peerflood the global delay is at least 6 s and at most 15 s and not below
\* its value before the dispatch; right after a success it lies in
\* [1.5 s, 10 s].
C32_DelayFlooredAfterFlood ==
    [][\A p \in Procs :
         (DispatchStep(p) /\ run[p].mode = "rotate")
         => /\ run'[p].sig \in {"floodwait", "peerflood"}
                => /\ run'[p].delay >= BackoffLow
                   /\ run'[p].delay <= BackoffHigh
                   /\ run'[p].delay >= run[p].delay
            /\ run'[p].sig = "ok"
                => run'[p].delay >= DelayLow /\ run'[p].delay <= DelayHigh]_vars

\* ------------------------------------------------------------------- C33
\* C33: banned is terminal. No step of a rotating run or of preflight takes a
\* stored banned flag or the flag of the running run back to false; while a
\* rotating run is in progress every session of it that is stored as banned is
\* banned in the run's states; the actor a rotating run is about to dispatch
\* on is not banned; and a pass of the loop that starts with every session of
\* the run banned sends no dispatch and, when it reaches the pick, ends the run.
C33_BannedIsTerminal ==
    [][\A p \in Procs :
         /\ \A a \in DOMAIN session_stats :
               session_stats[a].banned = 1
               => a \in DOMAIN session_stats' /\ session_stats'[a].banned = 1
         /\ (run[p].mode = "rotate" /\ run'[p].mode = "rotate" /\ run'[p].pc # "preflighted"
               /\ ~(run[p].pc \in {"idle", "done", "crashed"}))
            => \A a \in Actors : run[p].states[a].banned => run'[p].states[a].banned
         /\ (run'[p].mode = "rotate" /\ run'[p].pc \in {"loop", "dispatch", "exit"})
            => \A a \in Range(run'[p].files) :
                  (a \in DOMAIN session_stats' /\ session_stats'[a].banned = 1)
                  => run'[p].states[a].banned
         /\ (run'[p].mode = "rotate" /\ run'[p].pc = "dispatch")
            => ~run'[p].states[run'[p].cur].banned
         /\ (GateStep(p) /\ run[p].mode = "rotate"
               /\ \A a \in Range(run[p].files) : run[p].states[a].banned)
            => /\ run'[p].pc # "dispatch"
               /\ run'[p].ndisp = run[p].ndisp
               /\ run'[p].idx = run[p].idx => run'[p].pc = "exit"]_vars

\* a rotating run on the one session that preflight found unauthorized has
\* stopped at its first pick, nothing dispatched
C33_Witness ==
    \E p \in Procs :
        /\ run[p].mode = "rotate"
        /\ run[p].pc = "exit"
        /\ run[p].ev = "no_session"
        /\ run[p].idx = 1
        /\ run[p].ndisp = 0
        /\ nruns = 1
        /\ \A a \in Range(run[p].files) :
              run[p].states[a].banned /\ session_stats[a].banned = 1

\* ------------------------------------------------------------------- C34
\* C34: with two orchestrators interleaved on one store, a pair that has been
\* dispatched more than once, by both of them, still has at most one ledger
\* row, and exactly one as soon as a put for it was made. (That such a double
\* dispatch happens is the witness: the check and the write are two steps.)
C34_DoubleDispatchOneRow ==
    \A t \in Targets, k \in Keys :
        sent[<<t, k>>].n > 1
        => /\ Cardinality(RowsOf(t, k)) <= 1
           /\ lastPut[<<t, k>>] # "none" => Cardinality(RowsOf(t, k)) = 1

\* both orchestrators have dispatched the first candidate for the same target
\* and both were answered ok: the second passed the ledger gate before the
\* first wrote its row; the pair has one row, with status ok
C34_Witness ==
    /\ run[1].mode = "rotate" /\ run[2].mode = "rotate"
    /\ run[1].target = run[2].target
    /\ run[1].ev = "dispatch" /\ run[2].ev = "dispatch"
    /\ run[1].sig = "ok" /\ run[2].sig = "ok"
    /\ run[1].idx = 2 /\ run[2].idx = 2
    /\ nruns = 2
    /\ sent[<<run[1].target, users[1]>>].n = 2
    /\ \E row \in invites :
          /\ RowsOf(run[1].target, users[1]) = {row}
          /\ row.status = "ok"

\* ------------------------------------------------------------------- C35
\* C35: once the ledger row of a (target, candidate) pair has a terminal
\* status (ok, already, privacy, invalid), no step leaves the pair with a row
\* of another status or without a row.
C35_TerminalStays ==
    [][\A t \in Targets, k \in Keys :
         (\E row \in RowsOf(t, k) : row.status \in TerminalStatuses)
         => \E row \in invites' :
               /\ row.target = t /\ row.user_key = k
               /\ row.status \in TerminalStatuses]_vars

\* ------------------------------------------------------------------- C36
\* C36: when a rotating run has passed its whole input without stopping, every
\* candidate has been counted once: ok_cnt + skip_cnt + fail_cnt is the number
\* of candidates, and the candidates dispatched plus those counted by a gate
\* make up the list.
C36_EveryCandidateCounted ==
    \A p \in Procs :
        (/\ run[p].mode = "rotate"
         /\ run[p].pc \in {"loop", "done"}
         /\ ~run[p].halted
         /\ run[p].idx > Len(users))
        => run[p].ok_cnt + run[p].skip_cnt + run[p].fail_cnt = Len(users)

C38_DispatchOnConnectedClient ==
    \A p \in Procs :
        (run[p].mode = "rotate" /\ run[p].pc = "dispatch")
        => run[p].client_cache[run[p].cur] = "connected"

\* ------------------------------------------------------------------- C39
\* the candidates in the exclusion store
C39_Excluded(exc) == {k \in Keys : exc[k] > 0}

\* C39: the two loops agree step by step. From any state of a rotating run on
\* the one actor A, the gates of inviting let the same candidate through to
\* the dispatch as the gates of inviting_rotate_sessions do, and for the same
\* provider outcome the handler of inviting leaves the same ledger and the
\* same exclusion set as the handler of inviting_rotate_sessions, and goes on
\* to the next candidate exactly when that one does.
C39_RunsAgree ==
    [][\A p \in Procs :
         (run[p].mode = "rotate" /\ run[p].files = <<"A">>)
         => /\ (GateStep(p)
                  /\ run'[p].ev \in {"excluded", "ledger_skip", "capped", "picked"})
               => LET g == single_gate(run[p], invites, excluded_users, session_stats,
                                       now, 0)
                  IN  /\ g.invites = invites'
                      /\ C39_Excluded(g.excluded_users) = C39_Excluded(excluded_users')
                      /\ (g.run.pc = "dispatch") = (run'[p].pc = "dispatch")
            /\ DispatchStep(p)
               => LET o == [sig |-> run'[p].sig, sec |-> run'[p].sec]
                      s == single_dispatch(run[p], invites, excluded_users,
                                           session_stats, now, o, 0, 0)
                  IN  /\ s.invites = invites'
                      /\ C39_Excluded(s.excluded_users) = C39_Excluded(excluded_users')
                      /\ (s.run.pc = "loop") = (run'[p].pc = "loop")]_vars

\* ------------------------------------------------------------------- C40
\* C40 as stated: for base_delay >= 1.0, in every state of either loop the
\* delay slept before a dispatch is at least base_delay.
C40_DelayAtLeastBase ==
    \A p \in Procs :
        (run[p].pc = "dispatch" /\ cfg.base_delay >= DelayFloor)
        => run[p].delay >= cfg.base_delay

\* C40, amended: in every state of either loop the delay slept before a
\* dispatch is at least the smaller of max(1.0, base_delay) and 1.5 s, and
\* until the run's first success it is at least max(1.0, base_delay) (for
\* base_delay up to 12 s); after a success it may lie below base_delay.
C40_DelayAtLeastBand ==
    \A p \in Procs :
        run[p].pc = "dispatch"
        => /\ run[p].delay >= Min2(Max2(DelayFloor, cfg.base_delay), DelayLow)
           /\ (run[p].ok_cnt = 0 /\ cfg.base_delay <= SingleBackoffHigh)
              => run[p].delay >= Max2(DelayFloor, cfg.base_delay)

\* after a success the run is about to dispatch with a delay below its
\* base_delay, and within the band
C40_Witness ==
    \E p \in Procs :
        /\ run[p].pc = "dispatch"
        /\ run[p].ok_cnt > 0
        /\ run[p].delay < cfg.base_delay
        /\ run[p].delay >= DelayLow

====
